---------------------------- MODULE Spec2Model ----------------------------
(***************************************************************************)
(* HTCondor job-history analysis (condor_analysis/*.py).                   *)
(*                                                                         *)
(*   Spec      condor_to_parquet.parse_condor_history (the normalizer),    *)
(*             gantt_chart.parse_condor_history (phases from the raw JSON) *)
(*             and plot_gantt_phases.plot_gantt_phases_datetime (phase     *)
(*             bars from the normalized records), run on one batch.        *)
(*   SpecConc  plot_concurrent_jobs.plot_concurrent_jobs on one DataFrame. *)
(*                                                                         *)
(* Python values are records [kind, val]: None, an int, a datetime.  A     *)
(* JSON key that the record does not carry is Missing.                     *)
(***************************************************************************)
EXTENDS Integers, Sequences, FiniteSets, TLC

\* Largest raw timestamp (seconds) of the enumerated JSON records.
MaxTime == 2
\* Longest batch of the enumerated multi-job JSON files.
MaxJobs == 2
\* Latest instant (seconds) of the enumerated DataFrames of the estimator.
MaxInstant == 3
\* Most rows of the enumerated DataFrames of the estimator.
MaxRows == 2
\* Largest magnitude of the enumerated --resolution values.
MaxResolution == 3
\* Longest duration (seconds) of the enumerated rows of the distribution
\* analyzer.
MaxDuration == 15
\* --resolution when it is not given.
DefaultResolution == 30
\* Most files on the command line of generate_input_lists.py.
MaxFiles == 5
\* Largest breadth on the command line of generate_input_lists.py.
MaxBreadth == 4

VARIABLES
    pc,         \* which of the three programs have run on the batch
    data,       \* json.load(f): the list of raw job records
    records,    \* rows of the DataFrame condor_to_parquet builds
    phases,     \* rows of the DataFrame gantt_chart builds
    df_plot,    \* plot_gantt_phases_datetime: the rows after sort_values
    bars,       \* plot_gantt_phases_datetime: the ax.barh calls made
    df,         \* plot_concurrent_jobs.py: the rows of pd.read_parquet(...)
    resolution_seconds,   \* plot_concurrent_jobs.py: args.resolution
    conc,       \* plot_concurrent_jobs.py: how main ended, and the locals of
                \* plot_concurrent_jobs as far as they were assigned
    hist,       \* plot_duration_histograms.py: how main ended, df_plot and
                \* the statistics of the three phases
    curve,      \* plot_completion_curve.py: how main ended, df_complete and
                \* the totals
    ran,        \* the analyzers that were called on df so far
    parquet,    \* analyze_jobs.py: the rows in condor_jobs.parquet, or Absent
    args,       \* analyze_jobs.py: the parsed command line
    run,        \* analyze_jobs.py: all_success, the exit status and what
                \* each step of this run did
    first_run,  \* analyze_jobs.py: `run` as the first run left it
    chart,      \* plot_gantt_phases.py: the function main called and the
                \* x-axis it drew
    lists,      \* generate_input_lists.py: how generate_input_files ended,
                \* with its stride
    input_files_txt,   \* the lines of input_files.txt
    itemdata    \* submit_htc.py: one dict per submitted job

vars == <<pc, data, records, phases, df_plot, bars, df, resolution_seconds, conc,
          hist, curve, ran, parquet, args, run, first_run,
          chart, lists, input_files_txt, itemdata>>

----------------------------------------------------------------------------
(* Python values *)

None == [kind |-> "None", val |-> 0]
Missing == [kind |-> "missing", val |-> 0]
PyInt(n) == [kind |-> "int", val |-> n]

\* datetime.fromtimestamp(ts): a datetime object, not a number.
fromtimestamp(ts) == [kind |-> "datetime", val |-> ts]

\* job.get(key)
get(job, key) == IF job[key] = Missing THEN None ELSE job[key]

\* job.get(key, default)
get_default(job, key, default) == IF job[key] = Missing THEN default ELSE job[key]

\* The truth value Python gives `x` in `if x` / `... if x else None`,
\* for x None or an int: None and 0 are false.
truthy(x) == x.kind = "int" /\ x.val # 0

\* pd.notna(x) for a datetime column: NaT (None) is the only null.
notna(x) == x # None

\* (end - start).total_seconds() of two datetimes
total_seconds(start, end) == end.val - start.val

----------------------------------------------------------------------------
(* The raw records *)

TimeFields == {"JobCurrentStartDate", "JobCurrentStartTransferInputDate",
               "JobCurrentFinishTransferInputDate",
               "JobCurrentStartTransferOutputDate",
               "JobCurrentFinishTransferOutputDate",
               "JobFinishedHookTime", "CompletionDate"}

Fields == {"ProcId", "ClusterId", "JobStatus", "ExitCode"} \cup TimeFields

Timestamps == {Missing} \cup {PyInt(t) : t \in 0..MaxTime}

\* Removed (3) and Completed (4); exit codes 0 and 1.
Statuses == {Missing, PyInt(3), PyInt(4)}
ExitCodes == {Missing, PyInt(0), PyInt(1)}

\* Single-job files, first kind: a completed job (status 4, exit code 0) with
\* every timestamp field missing or in 0..MaxTime.
TimedJobs ==
    [ProcId : {PyInt(0)}, ClusterId : {PyInt(1)},
     JobStatus : {PyInt(4)}, ExitCode : {PyInt(0)},
     JobCurrentStartDate : Timestamps,
     JobCurrentStartTransferInputDate : Timestamps,
     JobCurrentFinishTransferInputDate : Timestamps,
     JobCurrentStartTransferOutputDate : Timestamps,
     JobCurrentFinishTransferOutputDate : Timestamps,
     JobFinishedHookTime : Timestamps,
     CompletionDate : Timestamps]

\* Single-job files, second kind: every status and exit code, with every
\* timestamp the phase rules read (the start date and the hook time, which
\* they do not read, are missing).
StatusJobs ==
    [ProcId : {PyInt(0)}, ClusterId : {PyInt(1)},
     JobStatus : Statuses, ExitCode : ExitCodes,
     JobCurrentStartDate : {Missing},
     JobCurrentStartTransferInputDate : Timestamps,
     JobCurrentFinishTransferInputDate : Timestamps,
     JobCurrentStartTransferOutputDate : Timestamps,
     JobCurrentFinishTransferOutputDate : Timestamps,
     JobFinishedHookTime : {Missing},
     CompletionDate : Timestamps]

RawJobs == TimedJobs \cup StatusJobs

\* Jobs of the multi-job files: the identity fields and the start date vary,
\* the job is otherwise a completed one with all its phases.
BatchJobs ==
    [ProcId : {Missing, PyInt(0)}, ClusterId : {Missing, PyInt(1)},
     JobStatus : {PyInt(4)}, ExitCode : {PyInt(0)},
     JobCurrentStartDate : {Missing} \cup {PyInt(t) : t \in 1..MaxTime},
     JobCurrentStartTransferInputDate : {PyInt(1)},
     JobCurrentFinishTransferInputDate : {PyInt(1)},
     JobCurrentStartTransferOutputDate : {PyInt(2)},
     JobCurrentFinishTransferOutputDate : {PyInt(2)},
     JobFinishedHookTime : {PyInt(2)},
     CompletionDate : {PyInt(2)}]

RECURSIVE SeqsUpTo(_, _)
\* The sequences over S of length at most n.
SeqsUpTo(S, n) ==
    IF n = 0 THEN {<<>>}
    ELSE LET shorter == SeqsUpTo(S, n - 1)
         IN  shorter \cup {Append(s, x) : s \in shorter, x \in S}

\* The JSON files the programs are run on.
JsonFiles == {<<j>> : j \in RawJobs} \cup SeqsUpTo(BatchJobs, MaxJobs)

----------------------------------------------------------------------------
(* condor_to_parquet.py *)

\* datetime.fromtimestamp(x) if x else None
to_datetime(x) == IF truthy(x) THEN fromtimestamp(x.val) ELSE None

\* duration_between testing `is not None` in place of the truth value.
duration_between_is_not_none(start, end) ==
    IF start # None /\ end # None THEN PyInt(end.val - start.val) ELSE None

\* d = None; if start and end: d = end - start
duration_between(start, end) ==
    IF truthy(start) /\ truthy(end) THEN PyInt(end.val - start.val) ELSE None

\* job_failed with `and` in place of `or`.
job_failed_and(job_status, exit_code) ==
    (job_status # PyInt(4)) /\ (exit_code # PyInt(0))

\* failed = (job_status != 4) or (exit_code != 0)
job_failed(job_status, exit_code) ==
    (job_status # PyInt(4)) \/ (exit_code # PyInt(0))

\* One iteration of the loop over `data`: the record appended for `job`.
normalize_job(job) ==
    LET proc_id == get(job, "ProcId")
        cluster_id == get(job, "ClusterId")
        job_status == get_default(job, "JobStatus", PyInt(0))
        exit_code == get_default(job, "ExitCode", PyInt(0))
        job_start_timestamp == get(job, "JobCurrentStartDate")
        input_start_timestamp == get(job, "JobCurrentStartTransferInputDate")
        input_end_timestamp == get(job, "JobCurrentFinishTransferInputDate")
        output_start_timestamp == get(job, "JobCurrentStartTransferOutputDate")
        output_end_timestamp == get(job, "JobCurrentFinishTransferOutputDate")
        job_end_timestamp == get(job, "JobFinishedHookTime")
        completion_timestamp == get(job, "CompletionDate")
    IN  [cluster_id |-> cluster_id,
         proc_id |-> proc_id,
         job_status |-> job_status,
         exit_code |-> exit_code,
         failed |-> job_failed(job_status, exit_code),
         job_start_time |-> to_datetime(job_start_timestamp),
         input_start_time |-> to_datetime(input_start_timestamp),
         input_end_time |-> to_datetime(input_end_timestamp),
         output_start_time |-> to_datetime(output_start_timestamp),
         output_end_time |-> to_datetime(output_end_timestamp),
         job_end_time |-> to_datetime(job_end_timestamp),
         completion_time |-> to_datetime(completion_timestamp),
         input_transfer_duration |->
             duration_between(input_start_timestamp, input_end_timestamp),
         job_duration |->
             duration_between(job_start_timestamp, job_end_timestamp),
         output_transfer_duration |->
             duration_between(output_start_timestamp, output_end_timestamp),
         total_duration |->
             duration_between(job_start_timestamp, completion_timestamp)]

\* parse_condor_history(json_file): one record per element of `data`.
parse_condor_history(d) == [k \in 1..Len(d) |-> normalize_job(d[k])]

----------------------------------------------------------------------------
(* gantt_chart.py *)

\* failed = (job_status != 4) or (exit_code != 0)
gantt_failed(job_status, exit_code) ==
    (job_status # PyInt(4)) \/ (exit_code # PyInt(0))

\* The dict appended to `records` for one phase.
phase_record(proc_id, cluster_id, phase, start, end, failed) ==
    [job_id |-> proc_id,
     cluster_id |-> cluster_id,
     phase |-> phase,
     start_time |-> fromtimestamp(start.val),
     end_time |-> fromtimestamp(end.val),
     duration |-> end.val - start.val,
     failed |-> failed]

\* gantt_input_execution with the Job Execution record nested under the
\* Input Transfer test.
gantt_input_execution_nested(job, failed) ==
    LET proc_id == get(job, "ProcId")
        cluster_id == get(job, "ClusterId")
        input_start == get(job, "JobCurrentStartTransferInputDate")
        input_end == get(job, "JobCurrentFinishTransferInputDate")
        output_start == get(job, "JobCurrentStartTransferOutputDate")
    IN  IF truthy(input_start) /\ truthy(input_end)
        THEN <<phase_record(proc_id, cluster_id, "Input Transfer",
                            input_start, input_end, failed)>>
             \o (IF truthy(output_start)
                 THEN <<phase_record(proc_id, cluster_id, "Job Execution",
                                     input_end, output_start, failed)>>
                 ELSE <<>>)
        ELSE <<>>

\* The Input Transfer and Job Execution records appended for `job`.
gantt_input_execution(job, failed) ==
    LET proc_id == get(job, "ProcId")
        cluster_id == get(job, "ClusterId")
        input_start == get(job, "JobCurrentStartTransferInputDate")
        input_end == get(job, "JobCurrentFinishTransferInputDate")
        output_start == get(job, "JobCurrentStartTransferOutputDate")
    IN  (IF truthy(input_start) /\ truthy(input_end)
         THEN <<phase_record(proc_id, cluster_id, "Input Transfer",
                             input_start, input_end, failed)>>
         ELSE <<>>)
        \o
        (IF truthy(input_end) /\ truthy(output_start)
         THEN <<phase_record(proc_id, cluster_id, "Job Execution",
                             input_end, output_start, failed)>>
         ELSE <<>>)

\* gantt_output with the fallback taken for successful jobs too.
gantt_output_any_job(job, failed) ==
    LET proc_id == get(job, "ProcId")
        cluster_id == get(job, "ClusterId")
        output_start == get(job, "JobCurrentStartTransferOutputDate")
        output_end == get(job, "JobCurrentFinishTransferOutputDate")
        completion_date == get(job, "CompletionDate")
    IN  IF truthy(output_start) /\ truthy(output_end)
        THEN <<phase_record(proc_id, cluster_id, "Output Transfer",
                            output_start, output_end, failed)>>
        ELSE IF truthy(output_start) /\ truthy(completion_date)
        THEN <<phase_record(proc_id, cluster_id, "Output Transfer",
                            output_start, completion_date, failed)>>
        ELSE <<>>

\* The Output Transfer record appended for `job`, if any.
gantt_output(job, failed) ==
    LET proc_id == get(job, "ProcId")
        cluster_id == get(job, "ClusterId")
        output_start == get(job, "JobCurrentStartTransferOutputDate")
        output_end == get(job, "JobCurrentFinishTransferOutputDate")
        completion_date == get(job, "CompletionDate")
    IN  IF truthy(output_start) /\ truthy(output_end)
        THEN <<phase_record(proc_id, cluster_id, "Output Transfer",
                            output_start, output_end, failed)>>
        ELSE IF failed /\ truthy(output_start) /\ truthy(completion_date)
        THEN <<phase_record(proc_id, cluster_id, "Output Transfer",
                            output_start, completion_date, failed)>>
        ELSE <<>>

\* One iteration of the loop over `data`: the records appended for `job`.
gantt_job(job) ==
    LET job_status == get_default(job, "JobStatus", PyInt(0))
        exit_code == get_default(job, "ExitCode", PyInt(0))
        failed == gantt_failed(job_status, exit_code)
    IN  gantt_input_execution(job, failed) \o gantt_output(job, failed)

RECURSIVE gantt_parse_condor_history(_)
\* gantt_chart.parse_condor_history(json_file): the phase records of all jobs,
\* in the order of `data`.
gantt_parse_condor_history(d) ==
    IF d = <<>> THEN <<>>
    ELSE gantt_job(Head(d)) \o gantt_parse_condor_history(Tail(d))

----------------------------------------------------------------------------
(* plot_gantt_phases.py *)

\* The orders df.sort_values('job_start_time') can leave the rows in: by
\* ascending start time with the null ones last; the order among equal keys
\* is whatever the sort (quicksort, not stable) makes it.
sort_values(frame) ==
    LET n == Len(frame)
        key(r) == r.job_start_time
        ordered(a, b) ==
            \/ ~notna(key(b))
            \/ notna(key(a)) /\ key(a).val <= key(b).val
        perms == {p \in [1..n -> 1..n] : \A x, y \in 1..n : x # y => p[x] # p[y]}
    IN  {[k \in 1..n |-> frame[p[k]]] :
            p \in {q \in perms :
                    \A k \in 1..n : k < n => ordered(frame[q[k]], frame[q[k + 1]])}}

\* phase_bar drawing the bars of zero length too.
phase_bar_not_negative(y_pos, phase, start, end) ==
    IF notna(start) /\ notna(end) /\ total_seconds(start, end) >= 0
    THEN <<[y_pos |-> y_pos, phase |-> phase, start |-> start, end |-> end,
            duration |-> total_seconds(start, end)]>>
    ELSE <<>>

\* The ax.barh call of one phase of one row, made when both instants are
\* set and the duration is positive.
phase_bar(y_pos, phase, start, end) ==
    IF notna(start) /\ notna(end) /\ total_seconds(start, end) > 0
    THEN <<[y_pos |-> y_pos, phase |-> phase, start |-> start, end |-> end,
            duration |-> total_seconds(start, end)]>>
    ELSE <<>>

\* The bars of one row of df_plot.
row_bars(y_pos, row) ==
    phase_bar(y_pos, "input", row.input_start_time, row.input_end_time)
    \o phase_bar(y_pos, "execution", row.input_end_time, row.output_start_time)
    \o phase_bar(y_pos, "output", row.output_start_time, row.output_end_time)

RECURSIVE bars_from(_, _)
\* for idx, row in df_plot.iterrows(): the bars of rows y..Len(frame), in order.
\* The index was reset, so the first row has y_pos 0.
bars_from(frame, y) ==
    IF y > Len(frame) THEN <<>>
    ELSE row_bars(y - 1, frame[y]) \o bars_from(frame, y + 1)

----------------------------------------------------------------------------
(* The three programs on one JSON file *)

NotRun == <<"not run">>

Init ==
    /\ pc = "loaded"
    /\ chart = NotRun
    /\ lists = NotRun
    /\ input_files_txt = NotRun
    /\ itemdata = NotRun
    /\ data \in JsonFiles
    /\ records = NotRun
    /\ phases = NotRun
    /\ df_plot = NotRun
    /\ bars = NotRun
    /\ df = NotRun
    /\ resolution_seconds = 0
    /\ conc = NotRun
    /\ hist = NotRun
    /\ curve = NotRun
    /\ ran = NotRun
    /\ parquet = NotRun
    /\ args = NotRun
    /\ run = NotRun
    /\ first_run = NotRun

\* condor_to_parquet.py: parse_condor_history builds the DataFrame.
Normalize ==
    /\ pc = "loaded"
    /\ records' = parse_condor_history(data)
    /\ pc' = "normalized"
    /\ UNCHANGED <<data, phases, df_plot, bars, df, resolution_seconds, conc, hist, curve, ran,
                   parquet, args, run, first_run,
                   chart, lists, input_files_txt, itemdata>>

\* gantt_chart.py: parse_condor_history builds the phase DataFrame.
GanttParse ==
    /\ pc = "normalized"
    /\ phases' = gantt_parse_condor_history(data)
    /\ pc' = "decomposed"
    /\ UNCHANGED <<data, records, df_plot, bars, df, resolution_seconds, conc, hist, curve, ran,
                   parquet, args, run, first_run,
                   chart, lists, input_files_txt, itemdata>>

\* plot_gantt_phases.py: main returns 1 on an empty DataFrame; otherwise
\* plot_gantt_phases_datetime(df) with max_jobs and job_range left None.
PlotGantt ==
    /\ pc = "decomposed"
    /\ Len(records) > 0
    /\ \E sorted \in sort_values(records) :
          /\ df_plot' = sorted
          /\ bars' = bars_from(sorted, 1)
    /\ pc' = "plotted"
    /\ UNCHANGED <<data, records, phases, df, resolution_seconds, conc, hist, curve, ran,
                   parquet, args, run, first_run,
                   chart, lists, input_files_txt, itemdata>>

Next == Normalize \/ GanttParse \/ PlotGantt

Spec == Init /\ [][Next]_vars

----------------------------------------------------------------------------
(* plot_concurrent_jobs.py *)

\* An instant that can fall between two seconds: a bin centre.  pandas keeps
\* nanoseconds, so halving a whole number of seconds is exact; the model
\* counts half seconds.
half_seconds(n) == [kind |-> "datetime", half_seconds |-> n]

\* df[df['job_start_time'].notna() & df['completion_time'].notna()]
valid_rows(frame) ==
    SelectSeq(frame, LAMBDA r : notna(r.job_start_time) /\ notna(r.completion_time))

\* df_valid['job_start_time'].min()
min_start(df_valid) ==
    LET starts == {df_valid[k].job_start_time.val : k \in 1..Len(df_valid)}
    IN  fromtimestamp(CHOOSE t \in starts : \A u \in starts : t <= u)

\* df_valid['completion_time'].max()
max_completion(df_valid) ==
    LET ends == {df_valid[k].completion_time.val : k \in 1..Len(df_valid)}
    IN  fromtimestamp(CHOOSE t \in ends : \A u \in ends : t >= u)

\* int(np.floor(total_duration / resolution_seconds)), resolution_seconds # 0
num_bins_floor(total_duration, resolution) ==
    IF resolution > 0
    THEN total_duration \div resolution
    ELSE (-total_duration) \div (-resolution)

\* int(np.ceil(total_duration / resolution_seconds)), resolution_seconds # 0
num_bins_of(total_duration, resolution) ==
    IF resolution > 0
    THEN -((-total_duration) \div resolution)
    ELSE -(total_duration \div (-resolution))

\* pd.date_range(start=start, periods=periods, freq=f'{resolution}s'), for
\* periods >= 0: start, start + resolution, ...
date_range(start, periods, resolution) ==
    [n \in 1..periods |-> fromtimestamp(start.val + (n - 1) * resolution)]

\* bin_end in place of the centre
bin_end_of(bin_start, bin_end) == half_seconds(2 * bin_end.val)

\* bin_start + (bin_end - bin_start) / 2
bin_center_of(bin_start, bin_end) ==
    half_seconds(2 * bin_start.val + (bin_end.val - bin_start.val))

\* The filter with `>=` in place of `>` on completion_time.
running_closed(df_valid, bin_center) ==
    SelectSeq(df_valid, LAMBDA r :
        /\ 2 * r.job_start_time.val <= bin_center.half_seconds
        /\ 2 * r.completion_time.val >= bin_center.half_seconds)

\* df_valid[(df_valid['job_start_time'] <= bin_center) &
\*          (df_valid['completion_time'] > bin_center)]
running(df_valid, bin_center) ==
    SelectSeq(df_valid, LAMBDA r :
        /\ 2 * r.job_start_time.val <= bin_center.half_seconds
        /\ 2 * r.completion_time.val > bin_center.half_seconds)

RECURSIVE Sum(_)
Sum(counts) == IF counts = <<>> THEN 0 ELSE Head(counts) + Sum(Tail(counts))

\* The k-th smallest of the counts.
kth_smallest(counts, k) ==
    LET values == {counts[n] : n \in 1..Len(counts)}
        at_most(v) == Cardinality({n \in 1..Len(counts) : counts[n] <= v})
    IN  CHOOSE v \in values :
           at_most(v) >= k /\ \A w \in values : w < v => at_most(w) < k

\* np.median(concurrent_counts), doubled: the middle count, or the mean of
\* the two middle ones.
twice_median(counts) ==
    LET n == Len(counts)
    IN  IF n % 2 = 1
        THEN 2 * kth_smallest(counts, (n + 1) \div 2)
        ELSE kth_smallest(counts, n \div 2) + kth_smallest(counts, n \div 2 + 1)

\* max(concurrent_counts)
max_of(counts) ==
    CHOOSE v \in {counts[n] : n \in 1..Len(counts)} :
       \A n \in 1..Len(counts) : counts[n] <= v

\* The locals of plot_concurrent_jobs before its first statement, and how
\* main ends: "assigned" names the locals assigned so far.
Called ==
    [ended |-> "running", exit_code |-> 0, message |-> "",
     assigned |-> {},
     df_valid |-> <<>>,
     start_time |-> None, end_time |-> None, total_duration |-> 0,
     num_bins |-> 0, time_bins |-> <<>>,
     concurrent_counts |-> <<>>, bin_centers |-> <<>>,
     max_concurrent |-> 0, sum_concurrent |-> 0, twice_median_concurrent |-> 0,
     saved |-> FALSE]

\* An uncaught exception: the traceback is printed and the interpreter exits
\* with status 1.
raised(locals, exception) ==
    [locals EXCEPT !.ended = "raised", !.message = exception, !.exit_code = 1]

\* Lines 65-153 of plot_concurrent_jobs, from the loop over the bins on.
count_and_plot(locals) ==
    LET time_bins == locals.time_bins
        df_valid == locals.df_valid
        bin_centers ==
            [n \in 1..(Len(time_bins) - 1) |->
                bin_center_of(time_bins[n], time_bins[n + 1])]
        concurrent_counts ==
            [n \in 1..(Len(time_bins) - 1) |-> Len(running(df_valid, bin_centers[n]))]
        counted ==
            [locals EXCEPT
                !.concurrent_counts = concurrent_counts,
                !.bin_centers = bin_centers,
                !.assigned = @ \cup {"concurrent_counts", "bin_centers"}]
    IN  IF concurrent_counts = <<>>
        THEN \* max() arg is an empty sequence
             raised(counted, "ValueError")
        ELSE [counted EXCEPT
                !.max_concurrent = max_of(concurrent_counts),
                !.sum_concurrent = Sum(concurrent_counts),
                !.twice_median_concurrent = twice_median(concurrent_counts),
                !.assigned = @ \cup {"max_concurrent", "mean_concurrent",
                                     "median_concurrent", "fig"},
                !.saved = TRUE,
                !.ended = "returned"]

\* plot_concurrent_jobs(df, output_file, resolution_seconds, show_plot): the
\* ways the call can end.  pd.date_range with a negative number of periods
\* either raises ValueError or gives an empty index, as the pandas release
\* has it.
plot_concurrent_jobs(frame, resolution) ==
    LET df_valid == valid_rows(frame)
        filtered == [Called EXCEPT !.df_valid = df_valid,
                                   !.assigned = {"df_valid"}]
        start_time == min_start(df_valid)
        end_time == max_completion(df_valid)
        total_duration == total_seconds(start_time, end_time)
        ranged == [filtered EXCEPT
                     !.start_time = start_time,
                     !.end_time = end_time,
                     !.total_duration = total_duration,
                     !.assigned = @ \cup {"start_time", "end_time", "total_duration"}]
        num_bins == num_bins_of(total_duration, resolution)
        binned(time_bins) ==
            [ranged EXCEPT
                !.num_bins = num_bins,
                !.time_bins = time_bins,
                !.assigned = @ \cup {"num_bins", "time_bins"}]
    IN  IF Len(df_valid) = 0
        THEN {[filtered EXCEPT !.ended = "returned",
                               !.message = "Error: No valid jobs with timing data"]}
        ELSE IF resolution = 0
        THEN \* float division by zero
             {raised(ranged, "ZeroDivisionError")}
        ELSE IF num_bins + 1 < 0
        THEN {raised([ranged EXCEPT !.num_bins = num_bins,
                                    !.assigned = @ \cup {"num_bins"}],
                     "ValueError"),
              count_and_plot(binned(<<>>))}
        ELSE {count_and_plot(binned(date_range(start_time, num_bins + 1, resolution)))}

\* main() requiring a valid job where it requires a row.
concurrent_main_valid_required(frame, resolution) ==
    IF Len(valid_rows(frame)) = 0
    THEN {[Called EXCEPT !.ended = "returned", !.exit_code = 1,
                         !.message = "Error: No data found in parquet file"]}
    ELSE plot_concurrent_jobs(frame, resolution)

\* main() after the parquet file was read: an empty DataFrame ends it with
\* status 1; otherwise it calls plot_concurrent_jobs and returns 0.
concurrent_main(frame, resolution) ==
    IF Len(frame) = 0
    THEN {[Called EXCEPT !.ended = "returned", !.exit_code = 1,
                         !.message = "Error: No data found in parquet file"]}
    ELSE plot_concurrent_jobs(frame, resolution)

\* The rows of the enumerated parquet files: the two columns the estimator
\* reads, each an instant in 0..MaxInstant or null.
Instants == {None} \cup {fromtimestamp(t) : t \in 0..MaxInstant}
Rows == [job_start_time : Instants, completion_time : Instants]

\* The jobs of the scenario: (0,10), (5,15), (20,25) seconds.
ScenarioFrame ==
    <<[job_start_time |-> fromtimestamp(0), completion_time |-> fromtimestamp(10)],
      [job_start_time |-> fromtimestamp(5), completion_time |-> fromtimestamp(15)],
      [job_start_time |-> fromtimestamp(20), completion_time |-> fromtimestamp(25)]>>

DataFrames == SeqsUpTo(Rows, MaxRows) \cup {ScenarioFrame}

\* --resolution is type=int: any integer is accepted.
Resolutions == (-MaxResolution..MaxResolution) \cup {5}

InitConc ==
    /\ pc = "read_parquet"
    /\ chart = NotRun
    /\ lists = NotRun
    /\ input_files_txt = NotRun
    /\ itemdata = NotRun
    /\ df \in DataFrames
    /\ resolution_seconds \in Resolutions
    /\ conc = Called
    /\ data = NotRun
    /\ records = NotRun
    /\ phases = NotRun
    /\ df_plot = NotRun
    /\ bars = NotRun
    /\ hist = NotRun
    /\ curve = NotRun
    /\ ran = NotRun
    /\ parquet = NotRun
    /\ args = NotRun
    /\ run = NotRun
    /\ first_run = NotRun

\* plot_concurrent_jobs.py: main, from the loaded DataFrame to its exit.
PlotConcurrentJobs ==
    /\ pc = "read_parquet"
    /\ conc' \in concurrent_main(df, resolution_seconds)
    /\ pc' = "exited"
    /\ UNCHANGED <<data, records, phases, df_plot, bars, df, resolution_seconds, hist, curve, ran,
                   parquet, args, run, first_run,
                   chart, lists, input_files_txt, itemdata>>

NextConc == PlotConcurrentJobs

SpecConc == InitConc /\ [][NextConc]_vars

----------------------------------------------------------------------------
(* plot_duration_histograms.py *)

\* A float that is a quotient of two integers; den = 0 stands for NaN.
Ratio(num, den) == [num |-> num, den |-> den]
NaN == Ratio(0, 0)

\* A float kept in hundredths of a second.
hundredths(n) == [hundredths |-> n]

\* df_plot[col].isna().all()
isna_all(frame, col) == \A k \in 1..Len(frame) : ~notna(frame[k][col])

\* (df_plot['output_start_time'] - df_plot['input_end_time'])
\* .dt.total_seconds() in one row: NaN where an instant is NaT.
seconds_between(start, end) ==
    IF notna(start) /\ notna(end) THEN PyInt(total_seconds(start, end)) ELSE None

\* The time between input_end_time and output_start_time in `row`, whatever
\* job_duration holds.
execution_gap(frame, row) ==
    seconds_between(row.input_end_time, row.output_start_time)

\* df_plot['execution_duration'] in `row` of `frame`.
execution_duration(frame, row) ==
    IF isna_all(frame, "job_duration")
    THEN seconds_between(row.input_end_time, row.output_start_time)
    ELSE row.job_duration

\* df.copy(): a new frame with the rows of `frame`.
copy(frame) == frame

\* `frame` with the column `col` set to values[k] in row k.
assign(frame, col, values) ==
    [k \in 1..Len(frame) |->
        [c \in DOMAIN frame[k] \cup {col} |->
            IF c = col THEN values[k] ELSE frame[k][c]]]

\* df_plot[col].dropna(), as the numbers it holds.
dropna(frame, col) ==
    LET present == SelectSeq(frame, LAMBDA r : notna(r[col]))
    IN  [k \in 1..Len(present) |-> present[k][col].val]

\* data[data >= 0]
data_not_negative(series) == SelectSeq(series, LAMBDA x : x >= 0)

\* data[data > 0]
data_positive_of(series) == SelectSeq(series, LAMBDA x : x > 0)

RECURSIVE SumSquares(_)
SumSquares(xs) ==
    IF xs = <<>> THEN 0 ELSE Head(xs) * Head(xs) + SumSquares(Tail(xs))

\* Series.mean(): NaN for no value.
mean(xs) == IF xs = <<>> THEN NaN ELSE Ratio(Sum(xs), Len(xs))

\* Series.std() (ddof = 1), squared: sum((x - mean)^2) / (n - 1), NaN for
\* fewer than two values.
std_squared(xs) ==
    LET n == Len(xs)
    IN  IF n < 2 THEN NaN
        ELSE Ratio(n * SumSquares(xs) - Sum(xs) * Sum(xs), n * (n - 1))

\* mean_val >= 5 * median_val
mean_at_least_5_medians(xs) == 2 * Sum(xs) >= 5 * twice_median(xs) * Len(xs)

\* mean_val > 5 * median_val, for the mean sum/n and the doubled median.
outlier_detected_of(xs) == 2 * Sum(xs) > 5 * twice_median(xs) * Len(xs)

\* np.histogram(data_positive, bins='auto')[1][-1]: the bins span
\* (min, max), widened by 0.5 on both sides when min = max.
last_bin_edge(xs) ==
    IF \A k \in 1..Len(xs) : xs[k] = xs[1]
    THEN hundredths(100 * max_of(xs) + 50)
    ELSE hundredths(100 * max_of(xs))

\* np.percentile(data_positive, 99): linear interpolation between the two
\* order statistics around position 0.99 * (n - 1).
percentile_99(xs) ==
    LET n == Len(xs)
        below == (99 * (n - 1)) \div 100
        fraction == (99 * (n - 1)) % 100
        lower == kth_smallest(xs, below + 1)
        upper == IF below + 2 <= n THEN kth_smallest(xs, below + 2) ELSE lower
    IN  hundredths(100 * lower + fraction * (upper - lower))

\* max(bin_edges[-1], p99)
larger_of(edge, p99) ==
    IF edge.hundredths >= p99.hundredths THEN edge ELSE p99

\* min(bin_edges[-1], p99)
x_max_of(edge, p99) ==
    IF edge.hundredths <= p99.hundredths THEN edge ELSE p99

\* data_positive, not filtered by x_max
not_trimmed(xs, x_max) == xs

\* data_positive[data_positive <= x_max]
data_to_plot_of(xs, x_max) == SelectSeq(xs, LAMBDA x : 100 * x <= x_max.hundredths)

\* (data_positive > x_max).sum()
n_excluded_of(xs, x_max) ==
    Len(SelectSeq(xs, LAMBDA x : 100 * x > x_max.hundredths))

\* Lines 43-51: the argument df and the local df_plot after them.  df_plot
\* is a copy, so the new column is set in it alone.
execution_added_in_place(frame) ==
    LET with_column ==
            assign(frame, "execution_duration",
                   [k \in 1..Len(frame) |-> execution_duration(frame, frame[k])])
    IN  [df |-> with_column, df_plot |-> with_column]

execution_added(frame) ==
    LET copied == copy(frame)
    IN  [df |-> frame,
         df_plot |-> assign(copied, "execution_duration",
                            [k \in 1..Len(copied) |->
                                execution_duration(copied, copied[k])])]

\* The `column` entries of `phases`, in the order of the loop.
phase_columns ==
    <<"input_transfer_duration", "execution_duration", "output_transfer_duration">>

\* One iteration of the loop over `phases` (lines 86-151): the locals it
\* leaves.  `plotted` is FALSE when the iteration ended at `continue`.
histogram_of(frame, col) ==
    LET series == dropna(frame, col)
        data_positive == data_positive_of(series)
        outlier_detected == outlier_detected_of(data_positive)
        x_max == x_max_of(last_bin_edge(data_positive), percentile_99(data_positive))
        data_to_plot == data_to_plot_of(data_positive, x_max)
        untrimmed ==
            [column |-> col,
             n_data |-> Len(series),
             data_positive |-> data_positive,
             plotted |-> TRUE,
             mean_val |-> mean(data_positive),
             std_val_squared |-> std_squared(data_positive),
             twice_median_val |-> twice_median(data_positive),
             outlier_detected |-> FALSE,
             x_max |-> None,
             data_to_plot |-> data_positive,
             plot_mean |-> mean(data_positive),
             plot_std_squared |-> std_squared(data_positive),
             n_excluded |-> 0]
    IN  IF Len(data_positive) = 0
        THEN [column |-> col, n_data |-> Len(series), data_positive |-> <<>>,
              plotted |-> FALSE, mean_val |-> NaN, std_val_squared |-> NaN,
              twice_median_val |-> 0, outlier_detected |-> FALSE,
              x_max |-> None, data_to_plot |-> <<>>, plot_mean |-> NaN,
              plot_std_squared |-> NaN, n_excluded |-> 0]
        ELSE IF outlier_detected
        THEN [untrimmed EXCEPT
                 !.outlier_detected = TRUE,
                 !.x_max = x_max,
                 !.data_to_plot = data_to_plot,
                 !.plot_mean = mean(data_to_plot),
                 !.plot_std_squared = std_squared(data_to_plot),
                 !.n_excluded = n_excluded_of(data_positive, x_max)]
        ELSE untrimmed

\* How a run of plot_duration_histograms.py stands before main reads the
\* parquet file.
HistCalled ==
    [ended |-> "running", exit_code |-> 0, message |-> "",
     df_plot |-> <<>>, histograms |-> <<>>, saved |-> FALSE]

\* plot_duration_histograms(df, output_file, show_plot): the ways the call
\* can end, each with the argument df as the call leaves it.  Subtracting
\* two columns of which one holds only None raises TypeError when pandas
\* read that column with dtype object, and gives NaN when it read it as
\* datetime64.
plot_duration_histograms(frame) ==
    LET added == execution_added(frame)
        returned ==
            [df |-> added.df,
             result |-> [HistCalled EXCEPT
                            !.ended = "returned",
                            !.df_plot = added.df_plot,
                            !.histograms =
                                [n \in 1..Len(phase_columns) |->
                                    histogram_of(added.df_plot, phase_columns[n])],
                            !.saved = TRUE]]
        type_error ==
            [df |-> frame,
             result |-> [HistCalled EXCEPT !.ended = "raised", !.exit_code = 1,
                                           !.message = "TypeError"]]
    IN  IF /\ isna_all(frame, "job_duration")
           /\ \/ isna_all(frame, "output_start_time")
              \/ isna_all(frame, "input_end_time")
        THEN {returned, type_error}
        ELSE {returned}

\* main() after the parquet file was read: an empty DataFrame ends it with
\* status 1; otherwise it calls plot_duration_histograms and returns 0.
histograms_main(frame) ==
    IF Len(frame) = 0
    THEN {[df |-> frame,
           result |-> [HistCalled EXCEPT
                          !.ended = "returned", !.exit_code = 1,
                          !.message = "Error: No data found in parquet file"]]}
    ELSE plot_duration_histograms(frame)

----------------------------------------------------------------------------
(* plot_completion_curve.py *)

\* The rows of a DataFrame read from a file, each with its label in the
\* RangeIndex; the label stays with the row through filtering and sorting.
labelled(frame) == assign(frame, "index", [k \in 1..Len(frame) |-> k - 1])

\* The orders frame.sort_values(col) can leave the rows in: ascending by
\* `col` with the null ones last; the order among equal keys is whatever the
\* sort (quicksort, not stable) makes it.
sort_values_by(frame, col) ==
    LET n == Len(frame)
        ordered(a, b) ==
            \/ ~notna(b[col])
            \/ notna(a[col]) /\ a[col].val <= b[col].val
        perms == {p \in [1..n -> 1..n] : \A x, y \in 1..n : x # y => p[x] # p[y]}
    IN  {[k \in 1..n |-> frame[p[k]]] :
            p \in {q \in perms :
                    \A k \in 1..n : k < n => ordered(frame[q[k]], frame[q[k + 1]])}}

\* range(0, len(df_complete))
range_from_0(n) == [k \in 1..n |-> k - 1]

\* range(1, len(df_complete) + 1)
range_from_1(n) == [k \in 1..n |-> k]

\* df_complete['completion_time'].min() and .max(), df_complete not empty
first_completion_of(rows) ==
    CHOOSE t \in {rows[k].completion_time : k \in 1..Len(rows)} :
       \A k \in 1..Len(rows) : t.val <= rows[k].completion_time.val
last_completion_of(rows) ==
    CHOOSE t \in {rows[k].completion_time : k \in 1..Len(rows)} :
       \A k \in 1..Len(rows) : t.val >= rows[k].completion_time.val

\* How a run of plot_completion_curve.py stands before main reads the
\* parquet file; "assigned" names the locals and columns assigned so far.
CurveCalled ==
    [ended |-> "running", exit_code |-> 0, message |-> "", assigned |-> {},
     df_complete |-> <<>>,
     first_completion |-> None, last_completion |-> None,
     total_duration |-> NaN, rate |-> NaN, saved |-> FALSE]

\* len(df_complete) / (total_duration / 60): a division of an int by a
\* Python float, which raises ZeroDivisionError for 0.0.
completion_rate(n, total_duration) ==
    IF total_duration = 0
    THEN [raised |-> TRUE, rate |-> NaN]
    ELSE [raised |-> FALSE, rate |-> Ratio(60 * n, total_duration)]

\* Lines 39-97 of plot_completion_curve for one order `sorted` that
\* sort_values left df_complete in, at least one row.
curve_of(sorted) ==
    LET n == Len(sorted)
        counted == assign(sorted, "cumulative_count", range_from_1(n))
        first_completion == first_completion_of(counted)
        last_completion == last_completion_of(counted)
        total_duration == total_seconds(first_completion, last_completion)
        relative ==
            assign(counted, "relative_duration_hours",
                   [k \in 1..n |->
                       Ratio(total_seconds(first_completion,
                                           counted[k].completion_time), 3600)])
        rate == completion_rate(n, total_duration)
        printed ==
            [CurveCalled EXCEPT
                !.df_complete = relative,
                !.first_completion = first_completion,
                !.last_completion = last_completion,
                !.total_duration = Ratio(total_duration, 1),
                !.assigned = {"df_complete", "cumulative_count", "first_completion",
                              "last_completion", "total_duration",
                              "relative_duration_hours"}]
    IN  IF rate.raised
        THEN [printed EXCEPT !.ended = "raised", !.exit_code = 1,
                             !.message = "ZeroDivisionError"]
        ELSE [printed EXCEPT !.ended = "returned", !.rate = rate.rate,
                             !.assigned = @ \cup {"fig"}, !.saved = TRUE]

\* Lines 39-97 when no row has a completion_time: min() of the empty column
\* is NaT when pandas read the column as datetime64, and the totals are NaN;
\* it is the float nan when pandas read it with dtype object, and
\* nan.total_seconds() raises AttributeError.
curve_of_none ==
    LET counted == [CurveCalled EXCEPT
                       !.assigned = {"df_complete", "cumulative_count",
                                     "first_completion", "last_completion"}]
    IN  {[counted EXCEPT !.ended = "raised", !.exit_code = 1,
                         !.message = "AttributeError"],
         [counted EXCEPT !.ended = "returned",
                         !.assigned = @ \cup {"total_duration",
                                              "relative_duration_hours", "fig"},
                         !.saved = TRUE]}

\* plot_completion_curve(df, output_file, show_plot): the ways the call can
\* end, each with the argument df as the call leaves it.  df_complete is a
\* copy of the selected rows, and the sort and the two new columns are made
\* on it.
plot_completion_curve(frame) ==
    LET df_complete ==
            copy(SelectSeq(labelled(frame), LAMBDA r : notna(r.completion_time)))
    IN  IF Len(df_complete) = 0
        THEN {[df |-> frame, result |-> r] : r \in curve_of_none}
        ELSE {[df |-> frame, result |-> curve_of(sorted)] :
                 sorted \in sort_values_by(df_complete, "completion_time")}

\* main() after the parquet file was read: an empty DataFrame ends it with
\* status 1; otherwise it calls plot_completion_curve and returns 0.
completion_main(frame) ==
    IF Len(frame) = 0
    THEN {[df |-> frame,
           result |-> [CurveCalled EXCEPT
                          !.ended = "returned", !.exit_code = 1,
                          !.message = "Error: No data found in parquet file"]]}
    ELSE plot_completion_curve(frame)

----------------------------------------------------------------------------
(* The four analyzers on one DataFrame *)

\* plot_gantt_phases.py, main after the parquet file was read: an empty
\* DataFrame ends it with status 1; otherwise the chart is drawn from a
\* sorted copy of df and main returns 0.
gantt_main(frame) ==
    IF Len(frame) = 0
    THEN {[exit_code |-> 1, df_plot |-> <<>>, bars |-> <<>>]}
    ELSE {[exit_code |-> 0, df_plot |-> sorted, bars |-> bars_from(sorted, 1)] :
             sorted \in sort_values(copy(frame))}

\* main, lines 349-352: the function called to create the plot.  Both
\* branches of `if args.use_datetime` call plot_gantt_phases_datetime.
create_plot(use_datetime) ==
    IF use_datetime
    THEN "plot_gantt_phases_datetime"
    ELSE "plot_gantt_phases_datetime"

\* The x-axis each of the two plotting functions draws: plot_gantt_phases
\* labels it in minutes from the first start (line 128),
\* plot_gantt_phases_datetime formats it as dates (lines 253-258).
x_axis_of(function) ==
    CASE function = "plot_gantt_phases" ->
            [xlabel |-> "Time (minutes from start)", datetime |-> FALSE]
      [] function = "plot_gantt_phases_datetime" ->
            [xlabel |-> "Time", datetime |-> TRUE]

\* What plot_gantt_phases.py has drawn before main creates the plot.
NoChart ==
    [exit_code |-> "running", function |-> "none",
     x_axis |-> [xlabel |-> "", datetime |-> FALSE]]

\* The chart main leaves: none when it returned 1 before creating the plot.
chart_of(out, use_datetime) ==
    IF out.exit_code = 0
    THEN [exit_code |-> 0, function |-> create_plot(use_datetime),
          x_axis |-> x_axis_of(create_plot(use_datetime))]
    ELSE [NoChart EXCEPT !.exit_code = out.exit_code]

\* A row of the parquet file whose instants and durations are all null.
BlankRow ==
    [cluster_id |-> PyInt(1), proc_id |-> PyInt(0),
     job_status |-> PyInt(4), exit_code |-> PyInt(0), failed |-> FALSE,
     job_start_time |-> None, input_start_time |-> None,
     input_end_time |-> None, output_start_time |-> None,
     output_end_time |-> None, job_end_time |-> None,
     completion_time |-> None,
     input_transfer_duration |-> None, job_duration |-> None,
     output_transfer_duration |-> None, total_duration |-> None]

\* The durations of the enumerated rows: null, negative, zero, short ones and
\* two long ones.
Durations ==
    {None} \cup {PyInt(d) : d \in {-1, 0, 1, 2, MaxDuration - 2, MaxDuration}}

\* Rows that differ in the input transfer duration.
TransferRows ==
    {[BlankRow EXCEPT !.input_transfer_duration = d] : d \in Durations}

\* Rows that differ in what the execution duration is computed from.
ExecutionRows ==
    {[BlankRow EXCEPT !.job_duration = d, !.input_end_time = a,
                      !.output_start_time = b] :
        d \in {None, PyInt(1)},
        a \in {None, fromtimestamp(1)},
        b \in {None, fromtimestamp(0), fromtimestamp(3)}}

\* Rows of jobs started at 0 that differ in the completion instant.
CompletionRows ==
    {[BlankRow EXCEPT !.job_start_time = fromtimestamp(0),
                      !.completion_time = b] : b \in Instants}

\* The six jobs of the scenario: input transfers of 10, 10, 11, 9, 10 and
\* 500 seconds.
ScenarioDurations ==
    [k \in 1..6 |->
        [BlankRow EXCEPT !.input_transfer_duration =
                            PyInt(<<10, 10, 11, 9, 10, 500>>[k])]]

\* The parquet files given to the distribution analyzer alone.
DurationFrames == SeqsUpTo(TransferRows, MaxRows + 1) \cup {ScenarioDurations}

\* Three jobs, two of which completed at the same instant.
TiedCompletions ==
    <<[BlankRow EXCEPT !.job_start_time = fromtimestamp(0),
                       !.completion_time = fromtimestamp(2)],
      [BlankRow EXCEPT !.job_start_time = fromtimestamp(0),
                       !.completion_time = fromtimestamp(2)],
      [BlankRow EXCEPT !.job_start_time = fromtimestamp(0),
                       !.completion_time = fromtimestamp(1)]>>

\* The parquet files given to the four analyzers.
AnalyzedFrames ==
    SeqsUpTo(ExecutionRows, MaxRows) \cup SeqsUpTo(CompletionRows, MaxRows)
       \cup {TiedCompletions}

InitAnalyze ==
    /\ pc = "read_parquet"
    /\ chart = NoChart
    /\ lists = NotRun
    /\ input_files_txt = NotRun
    /\ itemdata = NotRun
    /\ df \in AnalyzedFrames
    /\ resolution_seconds = DefaultResolution
    /\ ran = {}
    /\ parquet = NotRun
    /\ args = NotRun
    /\ run = NotRun
    /\ first_run = NotRun
    /\ curve = CurveCalled
    /\ hist = HistCalled
    /\ conc = Called
    /\ df_plot = NotRun
    /\ bars = NotRun
    /\ data = NotRun
    /\ records = NotRun
    /\ phases = NotRun

\* plot_completion_curve.py on df.
AnalyzeCompletion ==
    /\ "completion_curve" \notin ran
    /\ \E out \in completion_main(df) :
          /\ curve' = out.result
          /\ df' = out.df
    /\ ran' = ran \cup {"completion_curve"}
    /\ UNCHANGED <<pc, data, records, phases, df_plot, bars, resolution_seconds,
                   conc, hist,
                   parquet, args, run, first_run,
                   chart, lists, input_files_txt, itemdata>>

\* plot_gantt_phases.py on df: df_plot is a copy, and sort_values and
\* reset_index return new frames.
AnalyzeGantt ==
    /\ "gantt" \notin ran
    /\ \E out \in gantt_main(df) :
          /\ df_plot' = out.df_plot
          /\ bars' = out.bars
          /\ chart' = chart_of(out, FALSE)
    /\ ran' = ran \cup {"gantt"}
    /\ UNCHANGED <<pc, data, records, phases, df, resolution_seconds, conc,
                   hist, curve,
                   parquet, args, run, first_run,
                   lists, input_files_txt, itemdata>>

\* plot_duration_histograms.py on df.
AnalyzeHistograms ==
    /\ "histograms" \notin ran
    /\ \E out \in histograms_main(df) :
          /\ hist' = out.result
          /\ df' = out.df
    /\ ran' = ran \cup {"histograms"}
    /\ UNCHANGED <<pc, data, records, phases, df_plot, bars, resolution_seconds,
                   conc, curve,
                   parquet, args, run, first_run,
                   chart, lists, input_files_txt, itemdata>>

\* plot_concurrent_jobs.py on df: df_valid is a copy of the selected rows and
\* nothing is assigned to a frame.
AnalyzeConcurrent ==
    /\ "concurrent_jobs" \notin ran
    /\ conc' \in concurrent_main(df, resolution_seconds)
    /\ ran' = ran \cup {"concurrent_jobs"}
    /\ UNCHANGED <<pc, data, records, phases, df_plot, bars, df,
                   resolution_seconds, hist, curve,
                   parquet, args, run, first_run,
                   chart, lists, input_files_txt, itemdata>>

NextAnalyze ==
    AnalyzeCompletion \/ AnalyzeGantt \/ AnalyzeHistograms \/ AnalyzeConcurrent

SpecAnalyze == InitAnalyze /\ [][NextAnalyze]_vars

InitHist ==
    /\ pc = "read_parquet"
    /\ chart = NotRun
    /\ lists = NotRun
    /\ input_files_txt = NotRun
    /\ itemdata = NotRun
    /\ df \in DurationFrames
    /\ resolution_seconds = DefaultResolution
    /\ ran = {}
    /\ parquet = NotRun
    /\ args = NotRun
    /\ run = NotRun
    /\ first_run = NotRun
    /\ curve = CurveCalled
    /\ hist = HistCalled
    /\ conc = Called
    /\ df_plot = NotRun
    /\ bars = NotRun
    /\ data = NotRun
    /\ records = NotRun
    /\ phases = NotRun

NextHist == AnalyzeHistograms

SpecHist == InitHist /\ [][NextHist]_vars

\* plot_gantt_phases.py run on its own, with or without --use-datetime.
InitGantt ==
    /\ pc = "read_parquet"
    /\ df \in SeqsUpTo(ExecutionRows, MaxRows)
    /\ args \in [use_datetime : BOOLEAN]
    /\ chart = NoChart
    /\ df_plot = <<>>
    /\ bars = <<>>
    /\ lists = NotRun
    /\ input_files_txt = NotRun
    /\ itemdata = NotRun
    /\ resolution_seconds = DefaultResolution
    /\ ran = NotRun
    /\ parquet = NotRun
    /\ run = NotRun
    /\ first_run = NotRun
    /\ curve = NotRun
    /\ hist = NotRun
    /\ conc = NotRun
    /\ data = NotRun
    /\ records = NotRun
    /\ phases = NotRun

\* main of plot_gantt_phases.py from the loaded DataFrame to its return.
PlotGanttPhasesMain ==
    /\ pc = "read_parquet"
    /\ \E out \in gantt_main(df) :
          /\ df_plot' = out.df_plot
          /\ bars' = out.bars
          /\ chart' = chart_of(out, args.use_datetime)
    /\ pc' = "exited"
    /\ UNCHANGED <<data, records, phases, df, resolution_seconds, conc, hist,
                   curve, ran, parquet, args, run, first_run,
                   lists, input_files_txt, itemdata>>

NextGantt == PlotGanttPhasesMain

SpecGantt == InitGantt /\ [][NextGantt]_vars

----------------------------------------------------------------------------
(* ALMA_Imaging: generate_input_lists.py and submit_htc.py *)

\* A path: the directory it names and the file in it.  A relative path has
\* the directory "".
Cwd == "/work"
HomeData == "/home/srikrishna.sekhar/data/data/"
OsdfData == "osdf:///path-facility/data/srikrishna.sekhar/data/"
path(dir, name) == [dir |-> dir, name |-> name]

\* The order of two paths as strings: '/' sorts before the letters a
\* relative file name starts with, and the names of one directory are in
\* the order of their numbers.
path_before(p, q) ==
    \/ p.dir = HomeData /\ q.dir = ""
    \/ p.dir = q.dir /\ p.name <= q.name

\* infiles left in the order of the command line.
unsorted(infiles) == infiles

\* sorted(infiles)
sorted(infiles) ==
    CHOOSE s \in [1..Len(infiles) -> {infiles[k] : k \in 1..Len(infiles)}] :
       /\ \A x \in {infiles[k] : k \in 1..Len(infiles)} :
             Cardinality({k \in 1..Len(infiles) : s[k] = x})
                = Cardinality({k \in 1..Len(infiles) : infiles[k] = x})
       /\ \A k \in 1..Len(infiles) : k < Len(infiles) => path_before(s[k], s[k + 1])

\* round(n / d) of Python 3 for n >= 0 and d > 0: to the nearest integer, a
\* half to the even one.
round(n, d) ==
    LET q == n \div d
        r == n % d
    IN  IF 2 * r < d THEN q
        ELSE IF 2 * r > d THEN q + 1
        ELSE IF q % 2 = 0 THEN q ELSE q + 1

\* range(0, num_files, stride) for stride > 0, as the sequence of its values.
range_by(num_files, stride) ==
    [k \in 1..((num_files + stride - 1) \div stride) |-> (k - 1) * stride]

\* os.path.abspath(x)
abspath(x) == IF x.dir = "" THEN path(Cwd, x.name) ELSE x

\* x.replace('/home/srikrishna.sekhar/data/data/', 'osdf:///path-facility/...')
replace_home(x) == IF x.dir = HomeData THEN path(OsdfData, x.name) ELSE x

\* Lines 48-52 for one ii: the files of the line written, before the join.
line_of(infiles, ii, stride) ==
    LET last == IF ii + stride < Len(infiles) THEN ii + stride ELSE Len(infiles)
        input_files == SubSeq(infiles, ii + 1, last)
    IN  [k \in 1..Len(input_files) |-> replace_home(abspath(input_files[k]))]

\* input_files.txt, as the list of its lines.
NoFile == [exists |-> FALSE, lines |-> <<>>]
written(lines) == [exists |-> TRUE, lines |-> lines]

\* generate_input_files before it computes the stride.
Parsed == [ended |-> "running", message |-> "", num_files |-> 0, stride |-> 0]

\* generate_input_files() for the parsed infiles and breadth, without
\* --tar, the files being there: how it ends and the file it leaves.
generate_input_files(infiles, breadth, file) ==
    LET num_files == Len(infiles)
    IN  IF breadth = 0
        THEN [lists |-> [Parsed EXCEPT !.ended = "raised",
                                       !.message = "ZeroDivisionError",
                                       !.num_files = num_files],
              file |-> file]
        ELSE LET stride == round(num_files, breadth)
             IN  IF stride = 0
                 THEN [lists |-> [ended |-> "raised", message |-> "ValueError",
                                  num_files |-> num_files, stride |-> stride],
                       file |-> file]
                 ELSE LET steps == range_by(num_files, stride)
                      IN  [lists |-> [ended |-> "returned", message |-> "",
                                      num_files |-> num_files, stride |-> stride],
                           file |->
                               written([idx \in 1..Len(steps) |->
                                           line_of(sorted(infiles), steps[idx],
                                                   stride)])]

\* submit_htc.py, lines 15-18: one itemdata entry per line of
\* input_files.txt; open() raises when the file is not there.
submit_htc(file) ==
    IF ~file.exists
    THEN [ended |-> "raised", message |-> "FileNotFoundError", itemdata |-> <<>>]
    ELSE [ended |-> "submitted", message |-> "",
          itemdata |-> [k \in 1..Len(file.lines) |-> [input_data |-> file.lines[k]]]]

\* The files named on the command line: two relative ones and one under
\* the home data directory.
InputPaths == {path("", 1), path("", 2), path(HomeData, 1)}

InitLists ==
    /\ pc = "parsed"
    /\ args \in [infiles : SeqsUpTo(InputPaths, MaxFiles), breadth : 0..MaxBreadth]
    /\ lists = Parsed
    /\ input_files_txt = NoFile
    /\ itemdata = [ended |-> "not run", message |-> "", itemdata |-> <<>>]
    /\ chart = NotRun
    /\ df = NotRun
    /\ df_plot = NotRun
    /\ bars = NotRun
    /\ resolution_seconds = 0
    /\ ran = NotRun
    /\ parquet = NotRun
    /\ run = NotRun
    /\ first_run = NotRun
    /\ curve = NotRun
    /\ hist = NotRun
    /\ conc = NotRun
    /\ data = NotRun
    /\ records = NotRun
    /\ phases = NotRun

\* generate_input_lists.py
GenerateInputFiles ==
    /\ pc = "parsed"
    /\ LET out == generate_input_files(args.infiles, args.breadth, input_files_txt)
       IN  /\ lists' = out.lists
           /\ input_files_txt' = out.file
    /\ pc' = "generated"
    /\ UNCHANGED <<data, records, phases, df_plot, bars, df, resolution_seconds,
                   conc, hist, curve, ran, parquet, args, run, first_run,
                   chart, itemdata>>

\* submit_htc.py, run after generate_input_lists.py.
SubmitHtc ==
    /\ pc = "generated"
    /\ itemdata' = submit_htc(input_files_txt)
    /\ pc' = "submitted"
    /\ UNCHANGED <<data, records, phases, df_plot, bars, df, resolution_seconds,
                   conc, hist, curve, ran, parquet, args, run, first_run,
                   chart, lists, input_files_txt>>

NextLists == GenerateInputFiles \/ SubmitHtc

SpecLists == InitLists /\ [][NextLists]_vars

----------------------------------------------------------------------------
(* analyze_jobs.py *)

\* condor_jobs.parquet: not there, or there with the rows of a DataFrame.
Absent == [exists |-> FALSE, rows |-> <<>>]
stored(frame) == [exists |-> TRUE, rows |-> frame]

\* condor_to_parquet.py main that parses the JSON file and writes the
\* parquet file whether or not one exists.
condor_to_parquet_always_parses(d, file) ==
    LET frame == parse_condor_history(d)
    IN  IF Len(frame) = 0
        THEN [exit_code |-> 1, parquet |-> file]
        ELSE [exit_code |-> 0, parquet |-> stored(frame)]

\* condor_to_parquet.py main(json_file, --output file), the JSON file being
\* there: its exit status and the parquet file after it.  An existing
\* parquet file is loaded in place of the JSON file and is not written.
condor_to_parquet_main(d, file) ==
    LET loaded_from_existing == file.exists
        frame == IF loaded_from_existing THEN file.rows ELSE parse_condor_history(d)
    IN  IF Len(frame) = 0
        THEN [exit_code |-> 1, parquet |-> file]
        ELSE IF ~loaded_from_existing
        THEN [exit_code |-> 0, parquet |-> stored(frame)]
        ELSE [exit_code |-> 0, parquet |-> file]

\* The plot steps of main.
PlotSteps == {"completion_curve", "gantt", "histograms", "concurrent_jobs"}

\* The ways the script of plot step `step` can end when run on the parquet
\* file: each main returns 1 when the file does not exist.
script_outcomes(step, file, resolution) ==
    IF ~file.exists
    THEN {[exit_code |-> 1, message |-> "Error: File not found"]}
    ELSE CASE step = "completion_curve" ->
                {out.result : out \in completion_main(file.rows)}
           [] step = "gantt" -> gantt_main(file.rows)
           [] step = "histograms" ->
                {out.result : out \in histograms_main(file.rows)}
           [] step = "concurrent_jobs" -> concurrent_main(file.rows, resolution)

\* What a step of a run did: "not run", "skipped", "ok" or "failed", the
\* parquet file it found and what its script computed.
NoOutput == [not_run |-> TRUE]
StepNotRun == [status |-> "not run", input |-> Absent, output |-> NoOutput]

\* The outcomes of the script of `step` in this run, `earlier` being the
\* run before it: a script is a deterministic program, so on the file it had
\* in the earlier run it ends as it did then.
script_runs(step, file, resolution, earlier) ==
    IF /\ earlier.steps[step].status \in {"ok", "failed"}
       /\ earlier.steps[step].input = file
    THEN {earlier.steps[step].output}
    ELSE script_outcomes(step, file, resolution)

\* run_command that does not look at the exit status of the command.
run_command_ignoring_status(outcome) == TRUE

\* run_command(cmd, description): True iff the command exits with status 0.
run_command(outcome) == outcome.exit_code = 0

\* main returning 0 whatever all_success is.
main_returns_0(all_success) == 0

\* The value main returns after the summary (lines 236-241).
main_returns(all_success) == IF all_success THEN 0 ELSE 1

\* main at `all_success = True` (line 153).
RunStarted(number) ==
    [number |-> number, all_success |-> TRUE, exit_code |-> "running",
     steps |-> [step \in {"convert"} \cup PlotSteps |-> StepNotRun]]

\* The jobs of the JSON files analyze_jobs.py is run on: completed jobs
\* with all their phases that differ in the completion date.
PipelineJobs ==
    [ProcId : {PyInt(0)}, ClusterId : {PyInt(1)},
     JobStatus : {PyInt(4)}, ExitCode : {PyInt(0)},
     JobCurrentStartDate : {PyInt(1)},
     JobCurrentStartTransferInputDate : {PyInt(1)},
     JobCurrentFinishTransferInputDate : {PyInt(2)},
     JobCurrentStartTransferOutputDate : {PyInt(3)},
     JobCurrentFinishTransferOutputDate : {PyInt(4)},
     JobFinishedHookTime : {PyInt(3)},
     CompletionDate : {Missing, PyInt(4), PyInt(5)}]

PipelineFiles == SeqsUpTo(PipelineJobs, MaxJobs)

\* condor_jobs.parquet in the output directory before the first run: not
\* there, or written by an earlier conversion of some single-job file.
StoredParquets ==
    {Absent} \cup {stored(parse_condor_history(<<j>>)) : j \in PipelineJobs}

InitPipeline ==
    /\ pc = "step1"
    /\ chart = NotRun
    /\ lists = NotRun
    /\ input_files_txt = NotRun
    /\ itemdata = NotRun
    /\ data \in PipelineFiles
    /\ parquet \in StoredParquets
    /\ args \in [overwrite_parquet : BOOLEAN, gantt : BOOLEAN]
    /\ resolution_seconds = DefaultResolution
    /\ run = RunStarted(1)
    /\ first_run = RunStarted(0)
    /\ records = NotRun
    /\ phases = NotRun
    /\ df_plot = NotRun
    /\ bars = NotRun
    /\ df = NotRun
    /\ conc = NotRun
    /\ hist = NotRun
    /\ curve = NotRun
    /\ ran = NotRun

\* Step 1 when the parquet file exists and --overwrite-parquet was not given.
Step1Skip ==
    /\ pc = "step1"
    /\ parquet.exists /\ ~args.overwrite_parquet
    /\ run' = [run EXCEPT !.steps["convert"] =
                  [status |-> "skipped", input |-> parquet, output |-> NoOutput]]
    /\ pc' = "step2"
    /\ UNCHANGED <<data, records, phases, df_plot, bars, df, resolution_seconds,
                   conc, hist, curve, ran, parquet, args, first_run,
                   chart, lists, input_files_txt, itemdata>>

\* Step 1 otherwise: condor_to_parquet.py is run with --output parquet_file,
\* and main returns 1 when it fails.
Step1Convert ==
    /\ pc = "step1"
    /\ ~(parquet.exists /\ ~args.overwrite_parquet)
    /\ LET outcome == condor_to_parquet_main(data, parquet)
       IN  /\ parquet' = outcome.parquet
           /\ IF run_command(outcome)
              THEN /\ run' = [run EXCEPT !.steps["convert"] =
                                 [status |-> "ok", input |-> parquet,
                                  output |-> outcome]]
                   /\ pc' = "step2"
              ELSE /\ run' = [run EXCEPT !.steps["convert"] =
                                 [status |-> "failed", input |-> parquet,
                                  output |-> outcome],
                                         !.exit_code = 1]
                   /\ pc' = "exited"
    /\ UNCHANGED <<data, records, phases, df_plot, bars, df, resolution_seconds,
                   conc, hist, curve, ran, args, first_run,
                   chart, lists, input_files_txt, itemdata>>

\* A plot step: the script is run on parquet_file, and all_success is set to
\* False when it fails.
plot_step(step, to) ==
    /\ \E outcome \in script_runs(step, parquet, resolution_seconds, first_run) :
          run' = [run EXCEPT
                     !.steps[step] =
                         [status |-> IF run_command(outcome) THEN "ok" ELSE "failed",
                          input |-> parquet, output |-> outcome],
                     !.all_success = @ /\ run_command(outcome)]
    /\ pc' = to
    /\ UNCHANGED <<data, records, phases, df_plot, bars, df, resolution_seconds,
                   conc, hist, curve, ran, parquet, args, first_run,
                   chart, lists, input_files_txt, itemdata>>

\* Step 2: plot_completion_curve.py.
Step2Completion == pc = "step2" /\ plot_step("completion_curve", "step3")

\* Step 3 with --gantt: plot_gantt_phases.py.
Step3Gantt == pc = "step3" /\ args.gantt /\ plot_step("gantt", "step4")

\* Step 3 without --gantt.
Step3Skip ==
    /\ pc = "step3"
    /\ ~args.gantt
    /\ run' = [run EXCEPT !.steps["gantt"] =
                  [status |-> "skipped", input |-> parquet, output |-> NoOutput]]
    /\ pc' = "step4"
    /\ UNCHANGED <<data, records, phases, df_plot, bars, df, resolution_seconds,
                   conc, hist, curve, ran, parquet, args, first_run,
                   chart, lists, input_files_txt, itemdata>>

\* Step 4: plot_duration_histograms.py.
Step4Histograms == pc = "step4" /\ plot_step("histograms", "step5")

\* Step 5: plot_concurrent_jobs.py --resolution args.resolution.
Step5Concurrent == pc = "step5" /\ plot_step("concurrent_jobs", "summary")

\* The summary and the return of main: 0 iff all_success.
Summary ==
    /\ pc = "summary"
    /\ run' = [run EXCEPT !.exit_code = main_returns(run.all_success)]
    /\ pc' = "exited"
    /\ UNCHANGED <<data, records, phases, df_plot, bars, df, resolution_seconds,
                   conc, hist, curve, ran, parquet, args, first_run,
                   chart, lists, input_files_txt, itemdata>>

\* analyze_jobs.py is run again on the same JSON file and output directory,
\* with or without --overwrite-parquet.
RunAgain ==
    /\ pc = "exited"
    /\ run.number = 1
    /\ first_run' = run
    /\ run' = RunStarted(2)
    /\ \E overwrite \in BOOLEAN : args' = [args EXCEPT !.overwrite_parquet = overwrite]
    /\ pc' = "step1"
    /\ UNCHANGED <<data, records, phases, df_plot, bars, df, resolution_seconds,
                   conc, hist, curve, ran, parquet,
                   chart, lists, input_files_txt, itemdata>>

NextPipeline ==
    \/ Step1Skip \/ Step1Convert \/ Step2Completion \/ Step3Gantt \/ Step3Skip
    \/ Step4Histograms \/ Step5Concurrent \/ Summary \/ RunAgain

SpecPipeline == InitPipeline /\ [][NextPipeline]_vars

----------------------------------------------------------------------------
(* Properties of the normalizer and of the two phase decomposers *)

Normalized == pc \in {"normalized", "decomposed", "plotted"}
Decomposed == pc \in {"decomposed", "plotted"}
Plotted == pc = "plotted"

RECURSIVE Flatten(_)
Flatten(ss) == IF ss = <<>> THEN <<>> ELSE Head(ss) \o Flatten(Tail(ss))

\* A raw integer field, an absent one read as `default`.
RawOr(job, key, default) ==
    IF job[key] = Missing THEN default ELSE job[key].val

\* The claimed failure rule on the raw record.
RawFailed(job) ==
    RawOr(job, "JobStatus", 0) # 4 \/ RawOr(job, "ExitCode", 0) # 0

\* The phase records gantt_chart.py appended for job k of the file: the jobs
\* before it account for the first PhaseOffset(k) records.
RECURSIVE PhaseOffset(_)
PhaseOffset(k) ==
    IF k = 1 THEN 0 ELSE PhaseOffset(k - 1) + Len(gantt_job(data[k - 1]))

PhasesOfJob(k) ==
    SubSeq(phases, PhaseOffset(k) + 1, PhaseOffset(k) + Len(gantt_job(data[k])))

\* C1: the normalizer and the JSON phase decomposer set failed = true iff
\* JobStatus != 4 or ExitCode != 0, an absent JobStatus or ExitCode read as
\* 0; status 4 with exit code 0 is the only non-failed case and status 3 is
\* failed whatever the exit code.
C1_FailedRule ==
    /\ Normalized =>
         \A k \in 1..Len(data) :
            /\ records[k].failed = RawFailed(data[k])
            /\ ~records[k].failed =>
                  records[k].job_status = PyInt(4) /\ records[k].exit_code = PyInt(0)
            /\ data[k]["JobStatus"] = PyInt(3) => records[k].failed
    /\ Decomposed =>
         \A k \in 1..Len(data) :
            \A n \in 1..Len(PhasesOfJob(k)) :
               PhasesOfJob(k)[n].failed = RawFailed(data[k])

\* C1 witness: a record without JobStatus and ExitCode went through both
\* programs and is failed in both outputs.
C1_Witness ==
    /\ Decomposed
    /\ Len(data) = 1
    /\ data[1]["JobStatus"] = Missing /\ data[1]["ExitCode"] = Missing
    /\ records[1].failed
    /\ phases # <<>> /\ phases[1].failed

\* The four derived durations of a record, each with its two end points.
DurationColumns ==
    {<<"input_transfer_duration", "input_start_time", "input_end_time">>,
     <<"job_duration", "job_start_time", "job_end_time">>,
     <<"output_transfer_duration", "output_start_time", "output_end_time">>,
     <<"total_duration", "job_start_time", "completion_time">>}

DurationPresentIffEndpoints(rec, c) ==
    (rec[c[1]] # None) <=> (rec[c[2]] # None /\ rec[c[3]] # None)

\* C2 as claimed: every derived duration is present iff both its end points
\* are present, and every present duration is >= 0.
C2_DurationsNonNegative ==
    Normalized =>
       \A k \in 1..Len(records) : \A c \in DurationColumns :
          /\ DurationPresentIffEndpoints(records[k], c)
          /\ records[k][c[1]] # None => records[k][c[1]].val >= 0

\* C2 as amended: every derived duration is present iff both its end points
\* are present, and a present duration is end - start, which is negative
\* when the end point precedes the start point.
C2_DurationsAreDifferences ==
    Normalized =>
       \A k \in 1..Len(records) : \A c \in DurationColumns :
          /\ DurationPresentIffEndpoints(records[k], c)
          /\ records[k][c[1]] # None =>
                records[k][c[1]] =
                   PyInt(total_seconds(records[k][c[2]], records[k][c[3]]))

\* C2 witness: a record whose input transfer ends before it starts has a
\* present, negative duration.
C2_Witness ==
    /\ Normalized
    /\ \E k \in 1..Len(records) :
          /\ records[k].input_start_time = fromtimestamp(2)
          /\ records[k].input_end_time = fromtimestamp(1)
          /\ records[k].input_transfer_duration = PyInt(-1)

\* The raw field each instant column is read from.
InstantColumns ==
    {<<"job_start_time", "JobCurrentStartDate">>,
     <<"input_start_time", "JobCurrentStartTransferInputDate">>,
     <<"input_end_time", "JobCurrentFinishTransferInputDate">>,
     <<"output_start_time", "JobCurrentStartTransferOutputDate">>,
     <<"output_end_time", "JobCurrentFinishTransferOutputDate">>,
     <<"job_end_time", "JobFinishedHookTime">>,
     <<"completion_time", "CompletionDate">>}

\* C3: an instant of the JobRecord is absent iff the raw field is absent; a
\* field present with value 0 yields a present instant.
C3_AbsentIffMissing ==
    Normalized =>
       \A k \in 1..Len(data) : \A c \in InstantColumns :
          (records[k][c[1]] = None) <=> (data[k][c[2]] = Missing)

\* C4: a raw record without ClusterId and ProcId produces no JobRecord, so
\* there are as many JobRecords as raw records with an identity field.
HasIdentity(job) == job["ClusterId"] # Missing \/ job["ProcId"] # Missing

C4_MalformedSkipped ==
    Normalized =>
       /\ Len(records) = Cardinality({k \in 1..Len(data) : HasIdentity(data[k])})
       /\ \A k \in 1..Len(records) :
             records[k].cluster_id # None \/ records[k].proc_id # None

\* An interval of a phase, as both decomposers are compared: the phase and
\* its two instants.
Interval(phase, start, end) == [phase |-> phase, start |-> start, end |-> end]

\* The interval a rule emits for two instants of a JobRecord: one when both
\* are present (and, with positive_only, the end is after the start).
IntervalIfPresent(phase, start, end, positive_only) ==
    IF start # None /\ end # None /\ (positive_only => end.val > start.val)
    THEN <<Interval(phase, start, end)>>
    ELSE <<>>

\* Rules 1 and 2 on a JobRecord.
InputExecutionRule(rec, positive_only) ==
    IntervalIfPresent("Input Transfer", rec.input_start_time,
                      rec.input_end_time, positive_only)
    \o IntervalIfPresent("Job Execution", rec.input_end_time,
                         rec.output_start_time, positive_only)

\* Rule 3 on a JobRecord, with its fallback.
OutputRule(rec) ==
    IF rec.output_start_time # None /\ rec.output_end_time # None
    THEN <<Interval("Output Transfer", rec.output_start_time, rec.output_end_time)>>
    ELSE IF /\ rec.output_end_time = None
            /\ rec.failed
            /\ rec.output_start_time # None
            /\ rec.completion_time # None
    THEN <<Interval("Output Transfer", rec.output_start_time, rec.completion_time)>>
    ELSE <<>>

PhaseName(colour_key) ==
    CASE colour_key = "input" -> "Input Transfer"
      [] colour_key = "execution" -> "Job Execution"
      [] colour_key = "output" -> "Output Transfer"

\* The intervals of the given phases that gantt_chart.py emitted, in order.
EmittedIntervals(names) ==
    LET chosen == SelectSeq(phases, LAMBDA ph : ph.phase \in names)
    IN  [n \in 1..Len(chosen) |->
            Interval(chosen[n].phase, chosen[n].start_time, chosen[n].end_time)]

\* The intervals of the given phases that plot_gantt_phases_datetime drew
\* for the row at y_pos.
DrawnIntervals(y_pos, names) ==
    LET chosen == SelectSeq(bars, LAMBDA b : b.y_pos = y_pos
                                             /\ PhaseName(b.phase) \in names)
    IN  [n \in 1..Len(chosen) |->
            Interval(PhaseName(chosen[n].phase), chosen[n].start, chosen[n].end)]

InputExecution == {"Input Transfer", "Job Execution"}

\* C5 as claimed: each decomposer emits Input Transfer iff inputTransferStart
\* and inputTransferEnd are present, and Job Execution iff inputTransferEnd
\* and outputTransferStart are present, with those instants as end points.
C5_InputExecutionIffPresent ==
    /\ Decomposed =>
          EmittedIntervals(InputExecution) =
             Flatten([k \in 1..Len(records) |-> InputExecutionRule(records[k], FALSE)])
    /\ Plotted =>
          \A y \in 1..Len(df_plot) :
             DrawnIntervals(y - 1, InputExecution) =
                InputExecutionRule(df_plot[y], FALSE)

\* C5 as amended: gantt_chart.parse_condor_history emits the two intervals
\* by the claimed rules; plot_gantt_phases_datetime draws each of them only
\* when, in addition, its end is after its start.
C5_InputExecutionRules ==
    /\ Decomposed =>
          EmittedIntervals(InputExecution) =
             Flatten([k \in 1..Len(records) |-> InputExecutionRule(records[k], FALSE)])
    /\ Plotted =>
          \A y \in 1..Len(df_plot) :
             DrawnIntervals(y - 1, InputExecution) =
                InputExecutionRule(df_plot[y], TRUE)

\* C5 witness: a job whose input transfer has zero length and whose
\* execution has not: gantt_chart.py emitted both intervals, the plot drew
\* the execution only.
C5_Witness ==
    /\ Plotted
    /\ Len(data) = 1
    /\ records[1].input_start_time = fromtimestamp(1)
    /\ records[1].input_end_time = fromtimestamp(1)
    /\ records[1].output_start_time = fromtimestamp(2)
    /\ Len(EmittedIntervals(InputExecution)) = 2
    /\ Len(DrawnIntervals(0, InputExecution)) = 1

C7_NoNegativeInterval ==
    Decomposed =>
       \A n \in 1..Len(phases) :
          /\ phases[n].end_time.val >= phases[n].start_time.val
          /\ phases[n].duration >= 0

----------------------------------------------------------------------------
(* Properties of the concurrency estimator *)

Exited == pc = "exited"

\* The estimator counted the jobs of each bin (it may still have raised
\* afterwards).
Counted == Exited /\ "concurrent_counts" \in conc.assigned

\* The estimator returned its series, statistics and plot.
SeriesReturned == Exited /\ conc.ended = "returned" /\ conc.saved

\* The rows of df with jobStart and completion both present.
ValidJobs ==
    {k \in 1..Len(df) : df[k].job_start_time # None /\ df[k].completion_time # None}

\* The valid jobs occupying the instant of `half` half seconds, a job
\* occupying [jobStart, completion).
Occupying(half) ==
    {k \in ValidJobs :
        /\ 2 * df[k].job_start_time.val <= half
        /\ half < 2 * df[k].completion_time.val}

\* C8: the count of every bin is the number of valid jobs with
\* jobStart <= binCenter < completion; for the jobs (0,10), (5,15), (20,25)
\* at resolution 5 the counts are 1, 2, 1, 0, 1.
C8_CountsHalfOpen ==
    /\ Counted =>
          /\ Len(conc.concurrent_counts) = Len(conc.bin_centers)
          /\ \A n \in 1..Len(conc.concurrent_counts) :
                conc.concurrent_counts[n] =
                   Cardinality(Occupying(conc.bin_centers[n].half_seconds))
    /\ (Exited /\ df = ScenarioFrame /\ resolution_seconds = 5) =>
          /\ SeriesReturned
          /\ conc.concurrent_counts = <<1, 2, 1, 0, 1>>

\* C8 witness: a returned series with a bin centre at which one job starts
\* (counted) and another completes (not counted).
C8_Witness ==
    /\ SeriesReturned
    /\ \E n \in 1..Len(conc.bin_centers) : \E a, b \in ValidJobs :
          /\ 2 * df[a].job_start_time.val = conc.bin_centers[n].half_seconds
          /\ 2 * df[b].completion_time.val = conc.bin_centers[n].half_seconds
          /\ df[b].job_start_time.val < df[b].completion_time.val
          /\ conc.concurrent_counts[n] = 1

\* min(jobStart) and max(completion) over the valid jobs, in seconds.
T0 ==
    CHOOSE t \in {df[k].job_start_time.val : k \in ValidJobs} :
       \A k \in ValidJobs : t <= df[k].job_start_time.val
T1 ==
    CHOOSE t \in {df[k].completion_time.val : k \in ValidJobs} :
       \A k \in ValidJobs : t >= df[k].completion_time.val

\* ceil(d / r) for r # 0: the least integer not below the quotient.
Ceil(d, r) ==
    LET size == (IF d < 0 THEN -d ELSE d) + 1
    IN  CHOOSE n \in (-size)..size :
           IF r > 0 THEN n * r >= d /\ (n - 1) * r < d
                    ELSE n * r <= d /\ (n - 1) * r > d

\* C9: the returned series has exactly ceil((T1 - T0)/resolution) samples,
\* one per consecutive bin from T0, the i-th centred at
\* T0 + (i + 1/2) * resolution (i from 0).
C9_BinCountAndCenters ==
    SeriesReturned =>
       /\ Len(conc.concurrent_counts) = Ceil(T1 - T0, resolution_seconds)
       /\ Len(conc.bin_centers) = Len(conc.concurrent_counts)
       /\ \A n \in 1..Len(conc.bin_centers) :
             conc.bin_centers[n].half_seconds =
                2 * T0 + (2 * (n - 1) + 1) * resolution_seconds

\* C9 witness: T1 - T0 = 3 is not a multiple of the resolution 2 and the
\* returned series has ceil(3/2) = 2 samples.
C9_Witness ==
    /\ SeriesReturned
    /\ resolution_seconds = 2
    /\ T1 - T0 = 3
    /\ Len(conc.concurrent_counts) = 2

\* C10: called on valid jobs with a resolution <= 0, the estimator rejects it
\* with a configuration error naming the parameter before the time range is
\* computed, a bin created or a job counted; no series or plot is produced.
C10_ResolutionRejected ==
    (Exited /\ ValidJobs # {} /\ resolution_seconds <= 0) =>
       /\ conc.ended = "raised"
       /\ conc.message = "ConfigurationError: resolution_seconds"
       /\ conc.assigned \cap {"start_time", "end_time", "total_duration", "num_bins",
                              "time_bins", "concurrent_counts", "bin_centers"} = {}
       /\ ~conc.saved

\* C11 as stated: whenever no job has both jobStart and completion present,
\* the estimator returns without a sample and the run ends without an
\* exception and with exit status 0.
C11_NoValidJobsNoError ==
    (Exited /\ ValidJobs = {}) =>
       /\ conc.ended = "returned"
       /\ conc.exit_code = 0
       /\ conc.concurrent_counts = <<>>

\* C11, amended: for a batch with at least one row and no job with both
\* instants present the estimator returns after the filter, computing no bin
\* and no sample and saving no plot, and the run exits with status 0; a
\* batch without rows never reaches the estimator and the run exits with
\* status 1.
C11_NoValidJobsReturns ==
    /\ (Exited /\ ValidJobs = {} /\ Len(df) > 0) =>
          /\ conc.ended = "returned"
          /\ conc.exit_code = 0
          /\ conc.assigned = {"df_valid"}
          /\ conc.df_valid = <<>>
          /\ conc.concurrent_counts = <<>>
          /\ ~conc.saved
    /\ (Exited /\ Len(df) = 0) =>
          /\ conc.ended = "returned"
          /\ conc.exit_code = 1
          /\ conc.assigned = {}

\* C11 witness: two rows, one without jobStart and one without completion,
\* and the run has exited with status 0.
C11_Witness ==
    /\ Exited
    /\ Len(df) = 2
    /\ df[1].job_start_time = None /\ df[1].completion_time # None
    /\ df[2].job_start_time # None /\ df[2].completion_time = None
    /\ conc.ended = "returned"
    /\ conc.exit_code = 0

----------------------------------------------------------------------------
(* Properties of the distribution analyzer *)

\* plot_duration_histograms was called and returned.
HistReturned ==
    "histograms" \in ran /\ hist.ended = "returned" /\ hist.exit_code = 0

\* The rows whose value in the column of the n-th histogram is present and
\* strictly positive, and that value.
SampleValue(n, k) == hist.df_plot[k][phase_columns[n]].val
PositiveSamples(n) ==
    {k \in 1..Len(hist.df_plot) :
        /\ hist.df_plot[k][phase_columns[n]] # None
        /\ SampleValue(n, k) > 0}

RECURSIVE SumOver(_, _, _)
\* The sum of SampleValue(n, k)^power over the rows k in S.
SumOver(S, n, power) ==
    IF S = {} THEN 0
    ELSE LET k == CHOOSE j \in S : TRUE
             x == SampleValue(n, k)
         IN  (IF power = 2 THEN x * x ELSE x) + SumOver(S \ {k}, n, power)

\* The r-th order statistic of the samples S of the n-th histogram.
OrderStatistic(S, n, r) ==
    CHOOSE x \in {SampleValue(n, k) : k \in S} :
       /\ Cardinality({k \in S : SampleValue(n, k) < x}) < r
       /\ r <= Cardinality({k \in S : SampleValue(n, k) <= x})

\* Twice the median of the samples S.
TwiceMedian(S, n) ==
    LET c == Cardinality(S)
    IN  IF c % 2 = 1
        THEN 2 * OrderStatistic(S, n, (c + 1) \div 2)
        ELSE OrderStatistic(S, n, c \div 2) + OrderStatistic(S, n, c \div 2 + 1)

\* The float `ratio` is the mean of the samples S.
IsMeanOf(ratio, S, n) ==
    /\ ratio.den # 0
    /\ ratio.num * Cardinality(S) = SumOver(S, n, 1) * ratio.den

\* The float `ratio` is the squared sample standard deviation of the
\* samples S: undefined for one sample.
IsStdSquaredOf(ratio, S, n) ==
    LET c == Cardinality(S)
    IN  IF c < 2 THEN ratio = NaN
        ELSE /\ ratio.den # 0
             /\ ratio.num * (c * (c - 1)) =
                   (c * SumOver(S, n, 2) - SumOver(S, n, 1) * SumOver(S, n, 1))
                      * ratio.den

\* C12: mean, median and standard deviation of every phase are computed over
\* the samples that are present and strictly positive, and sampleCount is
\* the number of those samples.
C12_StatisticsOverPositive ==
    HistReturned =>
       \A n \in 1..Len(hist.histograms) :
          LET h == hist.histograms[n]
              S == PositiveSamples(n)
          IN  /\ Len(h.data_positive) = Cardinality(S)
              /\ h.plotted <=> S # {}
              /\ S # {} =>
                    /\ IsMeanOf(h.mean_val, S, n)
                    /\ IsStdSquaredOf(h.std_val_squared, S, n)
                    /\ h.twice_median_val = TwiceMedian(S, n)

\* C12 witness: a column with a null, a zero and one positive
\* sample, whose statistics are those of the positive sample.
C12_Witness ==
    /\ HistReturned
    /\ {df[k].input_transfer_duration : k \in 1..Len(df)} =
          {None, PyInt(0), PyInt(2)}
    /\ hist.histograms[1].data_positive = <<2>>
    /\ hist.histograms[1].mean_val = Ratio(2, 1)

\* The largest of the samples S of the n-th histogram.
MaxSample(S, n) ==
    CHOOSE x \in {SampleValue(n, k) : k \in S} :
       \A k \in S : SampleValue(n, k) <= x

\* mean(S) > 5 * median(S)
MeanExceeds5Medians(S, n) ==
    2 * SumOver(S, n, 1) > 5 * TwiceMedian(S, n) * Cardinality(S)

\* C13: for every non-empty positive sample set trimming is on iff
\* mean > 5 * median; when it is off there is no upper bound, no sample is
\* excluded and the displayed mean and standard deviation are the untrimmed
\* ones.
C13_TrimmingIffMeanExceeds ==
    HistReturned =>
       \A n \in 1..Len(hist.histograms) :
          LET h == hist.histograms[n]
              S == PositiveSamples(n)
          IN  S # {} =>
                 /\ h.outlier_detected <=> MeanExceeds5Medians(S, n)
                 /\ ~h.outlier_detected =>
                       /\ h.x_max = None
                       /\ h.data_to_plot = h.data_positive
                       /\ h.n_excluded = 0
                       /\ h.plot_mean = h.mean_val
                       /\ h.plot_std_squared = h.std_val_squared

\* C13 witness: the samples 1, 1 and MaxDuration, whose mean is above 5
\* medians, were trimmed.
C13_Witness ==
    /\ HistReturned
    /\ hist.histograms[1].data_positive = <<1, 1, MaxDuration>>
    /\ hist.histograms[1].outlier_detected
    /\ hist.histograms[1].x_max # None

\* C14: when trimming is on, the upper bound is the smaller of the 99th
\* percentile of the positive samples and the last edge of the automatic
\* binning, and so it is at most the largest sample.
C14_UpperBound ==
    HistReturned =>
       \A n \in 1..Len(hist.histograms) :
          LET h == hist.histograms[n]
              S == PositiveSamples(n)
              p99 == percentile_99(h.data_positive).hundredths
              edge == last_bin_edge(h.data_positive).hundredths
          IN  h.outlier_detected =>
                 /\ h.x_max.hundredths = IF p99 <= edge THEN p99 ELSE edge
                 /\ h.x_max.hundredths <= 100 * MaxSample(S, n)

\* C14 witness: the samples of the scenario, whose 99th percentile 475.55
\* is below the last bin edge 500 and is the upper bound.
C14_Witness ==
    /\ HistReturned
    /\ df = ScenarioDurations
    /\ hist.histograms[1].outlier_detected
    /\ percentile_99(hist.histograms[1].data_positive) = hundredths(47555)
    /\ last_bin_edge(hist.histograms[1].data_positive) = hundredths(50000)
    /\ hist.histograms[1].x_max = hundredths(47555)

\* The positive samples of the n-th histogram at most `bound` (hundredths).
Retained(n, bound) == {k \in PositiveSamples(n) : 100 * SampleValue(n, k) <= bound}

\* C15: when trimming is on, the trimmed mean and standard deviation are
\* those of exactly the positive samples <= trimUpperBound, excludedCount is
\* the number of positive samples above it, and retained plus excluded is
\* sampleCount; for the samples 10, 10, 11, 9, 10, 500 trimming is on and
\* 500 is the one excluded sample.
C15_TrimmedStatistics ==
    /\ HistReturned =>
          \A n \in 1..Len(hist.histograms) :
             LET h == hist.histograms[n]
                 S == PositiveSamples(n)
                 R == Retained(n, h.x_max.hundredths)
             IN  h.outlier_detected =>
                    /\ Len(h.data_to_plot) = Cardinality(R)
                    /\ \A x \in 1..Len(h.data_to_plot) :
                          100 * h.data_to_plot[x] <= h.x_max.hundredths
                    /\ IsMeanOf(h.plot_mean, R, n)
                    /\ IsStdSquaredOf(h.plot_std_squared, R, n)
                    /\ h.n_excluded = Cardinality(S \ R)
                    /\ Len(h.data_to_plot) + h.n_excluded = Len(h.data_positive)
    /\ (HistReturned /\ df = ScenarioDurations) =>
          /\ hist.histograms[1].outlier_detected
          /\ hist.histograms[1].data_to_plot = <<10, 10, 11, 9, 10>>
          /\ hist.histograms[1].n_excluded = 1

\* C15 witness: the scenario after the analyzer returned, the trimmed mean
\* 50/5 over the five retained samples.
C15_Witness ==
    /\ HistReturned
    /\ df = ScenarioDurations
    /\ hist.histograms[1].plot_mean = Ratio(50, 5)
    /\ hist.histograms[1].mean_val = Ratio(550, 6)
    /\ hist.histograms[1].n_excluded = 1

----------------------------------------------------------------------------
(* Properties of the completion-curve builder *)

\* plot_completion_curve was called and has built the cumulative counts.
CurveBuilt ==
    "completion_curve" \in ran /\ "cumulative_count" \in curve.assigned

\* The index labels of the records whose completion is present.
Completed == {k - 1 : k \in {j \in 1..Len(df) : df[j].completion_time # None}}

\* C16: the completion curve has exactly one entry per record whose
\* completion is present, the entries are ordered by non-decreasing
\* completion, and the k-th entry has cumulative count k.
C16_CurveEntries ==
    CurveBuilt =>
       LET entries == curve.df_complete
       IN  /\ Len(entries) = Cardinality(Completed)
           /\ {entries[k].index : k \in 1..Len(entries)} = Completed
           /\ \A k \in 1..Len(entries) :
                 /\ entries[k].completion_time = df[entries[k].index + 1].completion_time
                 /\ entries[k].cumulative_count = k
                 /\ k < Len(entries) =>
                       entries[k].completion_time.val
                          <= entries[k + 1].completion_time.val

\* C16 witness: two records, the second completed before the first; the
\* curve has the second one first, with counts 1 and 2.
C16_Witness ==
    /\ CurveBuilt
    /\ Len(df) = 2
    /\ df[1].completion_time # None /\ df[2].completion_time # None
    /\ df[2].completion_time.val < df[1].completion_time.val
    /\ Len(curve.df_complete) = 2
    /\ curve.df_complete[1].index = 1
    /\ curve.df_complete[1].cumulative_count = 1
    /\ curve.df_complete[2].cumulative_count = 2

\* The records with a completion all have the same one.
SameCompletion ==
    /\ Completed # {}
    /\ \A a, b \in Completed :
          df[a + 1].completion_time = df[b + 1].completion_time

\* C17: when all present completion instants are the same (totalElapsed = 0,
\* a single completed job included), the builder reports the rate as
\* undefined and finishes normally, without dividing by zero.
C17_ZeroElapsedRateUndefined ==
    ("completion_curve" \in ran /\ SameCompletion) =>
       /\ curve.ended = "returned"
       /\ curve.exit_code = 0
       /\ curve.rate = NaN
       /\ curve.saved

----------------------------------------------------------------------------
(* Properties of the analyzers together *)

\* C18: the batch is unchanged by every analyzer: whichever of
\* plot_completion_curve, plot_gantt_phases_datetime,
\* plot_duration_histograms and plot_concurrent_jobs runs, in any order, the
\* frame it was given has the same rows in the same order with the same
\* columns and values afterwards.
C18_BatchUnchanged == [][df' = df]_vars

\* C18 witness: all four analyzers have run on two records, the second
\* completed before the first; the curve builder's copy is reordered and has
\* the new columns, the histogram's copy has the execution_duration column,
\* and df has neither.
C18_Witness ==
    /\ ran = {"completion_curve", "gantt", "histograms", "concurrent_jobs"}
    /\ Len(df) = 2
    /\ df[1].completion_time # None /\ df[2].completion_time # None
    /\ df[2].completion_time.val < df[1].completion_time.val
    /\ curve.df_complete[1].completion_time = df[2].completion_time
    /\ "cumulative_count" \in DOMAIN curve.df_complete[1]
    /\ "execution_duration" \in DOMAIN hist.df_plot[1]
    /\ DOMAIN df[1] = DOMAIN BlankRow
    /\ Len(df_plot) = 2

----------------------------------------------------------------------------
(* Properties of analyze_jobs.py *)

\* main has returned in the second run.
RanTwice == pc = "exited" /\ run.number = 2

C20_OverwriteRegenerates ==
    pc \notin {"step1"} =>
       LET convert == run.steps["convert"]
       IN  /\ convert.status = "skipped" <=>
                (convert.input.exists /\ ~args.overwrite_parquet)
           /\ (convert.status = "ok" /\ convert.input.exists
                  /\ args.overwrite_parquet) =>
                 parquet = stored(parse_condor_history(data))

----------------------------------------------------------------------------
(* Further properties of the concurrency estimator *)

\* C21: for every non-empty set of valid jobs and every resolution > 0 the
\* estimator finishes normally with the samples and their max, mean and
\* median, also when T0 = T1 and the series has no bin.
C21_FinishesOnValidJobs ==
    (Exited /\ ValidJobs # {} /\ resolution_seconds > 0) =>
       /\ conc.ended = "returned"
       /\ conc.exit_code = 0
       /\ {"concurrent_counts", "max_concurrent", "mean_concurrent",
           "median_concurrent"} \subseteq conc.assigned

\* C25 as stated: every bin centre of a returned series is within [T0, T1].
C25_CentersWithinRange ==
    (SeriesReturned /\ resolution_seconds > 0) =>
       \A n \in 1..Len(conc.bin_centers) :
          /\ 2 * T0 <= conc.bin_centers[n].half_seconds
          /\ conc.bin_centers[n].half_seconds <= 2 * T1

\* C25, amended: every bin centre of a returned series is after T0 and
\* before T1 + resolution/2; the last bin reaches beyond T1 when T1 - T0 is
\* not a multiple of the resolution.
C25_CentersWithinHalfBin ==
    (SeriesReturned /\ resolution_seconds > 0) =>
       \A n \in 1..Len(conc.bin_centers) :
          /\ 2 * T0 < conc.bin_centers[n].half_seconds
          /\ conc.bin_centers[n].half_seconds < 2 * T1 + resolution_seconds

\* C25 witness: T1 - T0 = 1 at resolution 3, one bin centred at T0 + 1.5,
\* after T1.
C25_Witness ==
    /\ SeriesReturned
    /\ resolution_seconds = 3
    /\ T1 - T0 = 1
    /\ Len(conc.bin_centers) = 1
    /\ conc.bin_centers[1].half_seconds = 2 * T0 + 3
    /\ conc.bin_centers[1].half_seconds > 2 * T1

----------------------------------------------------------------------------
(* Further properties of the completion-curve builder *)

\* C22: among the curve's entries with the same completion instant the
\* cumulative counts follow the records' original index, so that the entry
\* with the smaller index has the smaller count, on every curve the builder
\* finishes.
C22_TiesInInputOrder ==
    (CurveBuilt /\ curve.ended = "returned") =>
       LET entries == curve.df_complete
       IN  \A j, k \in 1..Len(entries) :
              (/\ entries[j].completion_time = entries[k].completion_time
               /\ entries[j].index < entries[k].index)
                 => entries[j].cumulative_count < entries[k].cumulative_count

----------------------------------------------------------------------------
(* Further properties of the distribution analyzer *)

\* No record of df has a job_duration.
NoJobDuration == \A k \in 1..Len(df) : df[k].job_duration = None

\* Record k of df has both instants of its Execution phase, in order.
HasExecutionPhase(k) ==
    /\ df[k].input_end_time # None
    /\ df[k].output_start_time # None
    /\ df[k].input_end_time.val <= df[k].output_start_time.val

\* The seconds from input_end_time to output_start_time in record k of df,
\* None when one of the two is absent.
ExecutionGap(k) ==
    IF df[k].input_end_time # None /\ df[k].output_start_time # None
    THEN PyInt(df[k].output_start_time.val - df[k].input_end_time.val)
    ELSE None

\* C23 as stated: for every job that has an Execution phase, the execution
\* duration the analyzer uses is output_start_time - input_end_time,
\* whether or not a job of the batch has a job_duration.
C23_ExecutionIsPhaseGap ==
    HistReturned =>
       \A k \in 1..Len(df) :
          HasExecutionPhase(k) =>
             hist.df_plot[k].execution_duration = ExecutionGap(k)

\* C23, amended: the execution duration is output_start_time -
\* input_end_time only when no job of the batch has a job_duration; when at
\* least one has, it is each job's own job_duration (absent where the job
\* has none).
C23_ExecutionDurationSource ==
    HistReturned =>
       \A k \in 1..Len(df) :
          hist.df_plot[k].execution_duration =
             IF NoJobDuration THEN ExecutionGap(k) ELSE df[k].job_duration

\* C23 witness: two jobs with an Execution phase of 2 seconds, the first
\* with a job_duration of 1 second and the second with none; the analyzer
\* uses 1 second for the first and nothing for the second.
C23_Witness ==
    /\ HistReturned
    /\ Len(df) = 2
    /\ HasExecutionPhase(1) /\ HasExecutionPhase(2)
    /\ ExecutionGap(1) = PyInt(2) /\ ExecutionGap(2) = PyInt(2)
    /\ df[1].job_duration = PyInt(1) /\ df[2].job_duration = None
    /\ hist.df_plot[1].execution_duration = PyInt(1)
    /\ hist.df_plot[2].execution_duration = None

----------------------------------------------------------------------------
(* The two phase decomposers compared *)

Phases == {"Input Transfer", "Job Execution", "Output Transfer"}

\* The number of times x occurs in seq.
CountIn(seq, x) == Cardinality({n \in 1..Len(seq) : seq[n] = x})

\* The intervals seq and the intervals of left and right together are the
\* same, each as many times.
SameIntervals(seq, left, right) ==
    \A x \in {seq[n] : n \in 1..Len(seq)} \cup {left[n] : n \in 1..Len(left)}
                \cup {right[n] : n \in 1..Len(right)} :
       CountIn(seq, x) = CountIn(left, x) + CountIn(right, x)

\* The intervals plot_gantt_phases_datetime drew for all the jobs.
AllDrawn ==
    Flatten([y \in 1..Len(df_plot) |-> DrawnIntervals(y - 1, Phases)])

\* The Output Transfer intervals that end at the completion of a failed job
\* without outputTransferEnd.
FallbackIntervals ==
    Flatten([k \in 1..Len(records) |->
                IF records[k].output_end_time = None
                THEN OutputRule(records[k]) ELSE <<>>])

PositiveLength(interval) == interval.end.val > interval.start.val

\* C24 as stated: the intervals gantt_chart.parse_condor_history produces
\* from the raw records are the bars plot_gantt_phases_datetime draws for
\* the normalized records.
C24_DecomposersAgree ==
    Plotted => SameIntervals(EmittedIntervals(Phases), AllDrawn, <<>>)

\* C24, amended: the bars plot_gantt_phases_datetime draws are the
\* intervals of gantt_chart.parse_condor_history whose end is after their
\* start, without the Output Transfer intervals that end at the completion
\* of a failed job.
C24_BarsArePositiveNonFallback ==
    Plotted =>
       SameIntervals(SelectSeq(EmittedIntervals(Phases), PositiveLength),
                     AllDrawn,
                     SelectSeq(FallbackIntervals, PositiveLength))

\* C24 witness: a failed job without outputTransferEnd whose input transfer
\* has zero length: gantt_chart.py produced three intervals, the last one
\* ending at the completion, and the plot drew the execution only.
C24_Witness ==
    /\ Plotted
    /\ Len(data) = 1
    /\ records[1].failed
    /\ records[1].output_end_time = None
    /\ EmittedIntervals(Phases) =
          <<Interval("Input Transfer", fromtimestamp(1), fromtimestamp(1)),
            Interval("Job Execution", fromtimestamp(1), fromtimestamp(2)),
            Interval("Output Transfer", fromtimestamp(2), records[1].completion_time)>>
    /\ AllDrawn = <<Interval("Job Execution", fromtimestamp(1), fromtimestamp(2))>>

----------------------------------------------------------------------------
(* The steps of analyze_jobs.py *)

\* The script of `step` was started in this run.
Started(step) == run.steps[step].status \in {"ok", "failed"}

\* The script of `step` was started and exited with status 0.
Succeeded(step) == Started(step) /\ run.steps[step].output.exit_code = 0

\* C26: a plot step is started only on a parquet file that exists; when
\* the conversion of step 1 is run and fails, main returns 1 at once and
\* none of steps 2 to 5 is started.
C26_NoPlotWithoutParquet ==
    /\ \A step \in PlotSteps : Started(step) => run.steps[step].input.exists
    /\ (Started("convert") /\ ~Succeeded("convert")) =>
          /\ pc = "exited"
          /\ run.exit_code = 1
          /\ \A step \in PlotSteps : run.steps[step] = StepNotRun

\* C26 witness: no parquet file and an empty JSON file: the conversion
\* exited with status 1, main returned 1 and no plot step was started.
C26_Witness ==
    /\ pc = "exited"
    /\ run.number = 1
    /\ data = <<>>
    /\ ~parquet.exists
    /\ run.steps["convert"].status = "failed"
    /\ run.steps["convert"].output.exit_code = 1
    /\ run.exit_code = 1
    /\ \A step \in PlotSteps : ~Started(step)

\* C27: once step 1 is passed, steps 2, 4 and 5 are always started and step
\* 3 is started iff --gantt was given, whatever the earlier plot steps did;
\* main returns 0 iff every step it started succeeded, and 1 otherwise.
C27_PlotStepsIndependent ==
    (pc = "exited" /\ run.steps["convert"].status \in {"ok", "skipped"}) =>
       /\ \A step \in PlotSteps \ {"gantt"} : Started(step)
       /\ Started("gantt") <=> args.gantt
       /\ run.exit_code =
             IF \A step \in {"convert"} \cup PlotSteps :
                    Started(step) => Succeeded(step)
             THEN 0 ELSE 1

\* C27 witness: with --gantt, step 2 failed and steps 3, 4 and 5 were
\* started after it and succeeded; main returned 1.
C27_Witness ==
    /\ pc = "exited"
    /\ args.gantt
    /\ run.steps["completion_curve"].status = "failed"
    /\ Succeeded("gantt") /\ Succeeded("histograms") /\ Succeeded("concurrent_jobs")
    /\ run.exit_code = 1

----------------------------------------------------------------------------
(* The x-axis of plot_gantt_phases.py *)

\* C28: plot_gantt_phases.py draws the chart with plot_gantt_phases_datetime
\* and a datetime x-axis iff --use-datetime was given, and with
\* plot_gantt_phases and an axis in minutes from the start otherwise.
C28_AxisFollowsFlag ==
    (pc = "exited" /\ chart.exit_code = 0) =>
       /\ chart.function =
             IF args.use_datetime THEN "plot_gantt_phases_datetime"
             ELSE "plot_gantt_phases"
       /\ chart.x_axis.datetime <=> args.use_datetime
       /\ ~args.use_datetime => chart.x_axis.xlabel = "Time (minutes from start)"

----------------------------------------------------------------------------
(* Properties of generate_input_lists.py *)

\* generate_input_files has come to its end, one way or the other.
Generated == pc \in {"generated", "submitted"}

NumFiles == Len(args.infiles)
Lines == input_files_txt.lines

\* The entries of infiles in ascending order, each as it is written.
RECURSIVE Insert(_, _)
Insert(x, seq) ==
    IF seq = <<>> THEN <<x>>
    ELSE IF path_before(x, Head(seq)) THEN <<x>> \o seq
    ELSE <<Head(seq)>> \o Insert(x, Tail(seq))

RECURSIVE InOrder(_)
InOrder(seq) == IF seq = <<>> THEN <<>> ELSE Insert(Head(seq), InOrder(Tail(seq)))

Written(x) ==
    IF x.dir = "" THEN path(Cwd, x.name)
    ELSE IF x.dir = HomeData THEN path(OsdfData, x.name)
    ELSE x

WrittenInOrder ==
    LET ordered == InOrder(args.infiles)
    IN  [k \in 1..NumFiles |-> Written(ordered[k])]

C30_AtMostBreadthLines ==
    (Generated /\ NumFiles >= 1 /\ args.breadth >= 1) =>
       /\ lists.ended = "returned"
       /\ Len(Lines) >= 1
       /\ Len(Lines) <= args.breadth

=============================================================================
